---- MODULE Spec2Model ----
(***************************************************************************)
(* Harry's Haunted House slot machine: the payout engine                   *)
(* (HauntedHouseSlot) and its random source (Xoshiro256StarStar).          *)
(*                                                                         *)
(* Representation.                                                         *)
(*  - A 64-bit word is the set of the positions (0 = least significant)    *)
(*    of its 1 bits; Python's unbounded integers are sets over Nat and     *)
(*    "& ((1 << 64) - 1)" is the intersection with 0..63.                  *)
(*  - Money is in whole cents.  Bets are integers, every paytable          *)
(*    multiplier has one decimal and every rtp multiplier has one decimal, *)
(*    so every amount the engine computes is a whole number of cents; the  *)
(*    engine's round(x, 2) returns the float nearest to that number of     *)
(*    cents.                                                               *)
(*  - A float in [0, 1) produced by random() is its 53-bit numerator v     *)
(*    (the float is v * 2^-53).                                            *)
(***************************************************************************)
EXTENDS Integers, Sequences, FiniteSets, Bags, TLC

(***************************************************************************)
(* 64-bit words                                                            *)
(***************************************************************************)
WordBits == 0..63

Mask64(x) == x \cap WordBits

Shl(x, k) == {i + k : i \in x}

Shr(x, k) == {i - k : i \in {j \in x : j >= k}}

Xor(a, b) == (a \ b) \cup (b \ a)

MaxBit(x) == CHOOSE i \in x : \A j \in x : j <= i

\* a < b for two non-negative integers given by their bits
Less(a, b) == LET d == Xor(a, b) IN d # {} /\ MaxBit(d) \in b

\* the integer held by the 16 bits of x from position lo upward
BitsValue(x, lo) ==
    BagCardinality([i \in {j \in x : lo <= j /\ j < lo + 16} |-> 2 ^ (i - lo)])

\* (a + b) & ((1 << 64) - 1): add without carries, then add the carries
RECURSIVE AddMask64(_, _)
AddMask64(a, b) ==
    IF b = {} THEN a
    ELSE CHOOSE r \in {AddMask64(x, c) : x \in {Xor(a, b)},
                                         c \in {Mask64(Shl(a \cap b, 1))}} : TRUE

\* (x * 5) & ((1 << 64) - 1) and (x * 9) & ((1 << 64) - 1), as x + 4x and x + 8x
Times5Mask64(x) == CHOOSE r \in {AddMask64(y, Mask64(Shl(y, 2))) : y \in {x}} : TRUE

Times9Mask64(x) == CHOOSE r \in {AddMask64(y, Mask64(Shl(y, 3))) : y \in {x}} : TRUE

\* x % n for a 64-bit word x and 0 < n < 2^15, over the four 16-bit limbs of x
ModN(x, n) ==
    LET r3 == BitsValue(x, 48) % n
        r2 == (r3 * 65536 + BitsValue(x, 32)) % n
        r1 == (r2 * 65536 + BitsValue(x, 16)) % n
    IN  (r1 * 65536 + BitsValue(x, 0)) % n

(***************************************************************************)
(* Xoshiro256StarStar                                                      *)
(***************************************************************************)
rotl(x, k) == CHOOSE r \in {Mask64(Shl(y, k)) \cup Shr(y, 64 - k) : y \in {x}} : TRUE

\* mutant of next_uint64: the word returned is scrambled from s0
next_uint64_of_s0(s) ==
    LET s0 == s[1]
        s1 == s[2]
        s2 == s[3]
        s3 == s[4]
        result == Times9Mask64(rotl(Times5Mask64(s0), 7))
        t  == Mask64(Shl(s1, 17))
        a2 == Xor(s2, s0)
        a3 == Xor(s3, s1)
        a1 == Xor(s1, a2)
        a0 == Xor(s0, a3)
        b2 == Xor(a2, t)
        b3 == rotl(a3, 45)
    IN  [value |-> result, s |-> <<a0, a1, b2, b3>>]

\* next_uint64 on the state words s: the value returned and the state left behind
next_uint64(s) ==
    LET s0 == s[1]
        s1 == s[2]
        s2 == s[3]
        s3 == s[4]
        result == Times9Mask64(rotl(Times5Mask64(s1), 7))
        t  == Mask64(Shl(s1, 17))
        a2 == Xor(s2, s0)
        a3 == Xor(s3, s1)
        a1 == Xor(s1, a2)
        a0 == Xor(s0, a3)
        b2 == Xor(a2, t)
        b3 == rotl(a3, 45)
    IN  [value |-> result, s |-> <<a0, a1, b2, b3>>]

\* random(): the 53-bit numerator of the float, and the state left behind
random(s) ==
    CHOOSE r \in {[value |-> Shr(d.value, 11), s |-> d.s] : d \in {next_uint64(s)}} : TRUE

\* mutant of randint: the generator is advanced before n is tested
randint_draw_first(s, n) ==
    CHOOSE r \in {[raised |-> n <= 0,
                   value |-> IF n <= 0 THEN 0 ELSE ModN(d.value, n),
                   s |-> d.s] : d \in {next_uint64(s)}} : TRUE

\* randint(n): ValueError for n <= 0, else next_uint64() % n
randint(s, n) ==
    IF n <= 0 THEN [raised |-> TRUE, value |-> 0, s |-> s]
    ELSE CHOOSE r \in {[raised |-> FALSE, value |-> ModN(d.value, n), s |-> d.s] :
                           d \in {next_uint64(s)}} : TRUE

(***************************************************************************)
(* Slot machine math config                                                *)
(***************************************************************************)
REELS == 5

ROWS == 3

SYMBOLS == <<"beetle", "spider", "bat", "ghost", "goblin", "skeleton", "mummy",
             "vampire", "witch", "werewolf", "haunted_house", "freespins">>

SCATTER_SYMBOL == "freespins"

\* bet * multiplier for 3, 4, 5 of a kind; the multipliers are in tenths
PAYTABLE ==
    [beetle        |-> (3 :> 5  @@ 4 :> 10  @@ 5 :> 20),
     spider        |-> (3 :> 8  @@ 4 :> 15  @@ 5 :> 30),
     bat           |-> (3 :> 10 @@ 4 :> 20  @@ 5 :> 40),
     ghost         |-> (3 :> 12 @@ 4 :> 25  @@ 5 :> 50),
     goblin        |-> (3 :> 15 @@ 4 :> 30  @@ 5 :> 70),
     skeleton      |-> (3 :> 20 @@ 4 :> 40  @@ 5 :> 90),
     mummy         |-> (3 :> 25 @@ 4 :> 50  @@ 5 :> 120),
     vampire       |-> (3 :> 30 @@ 4 :> 70  @@ 5 :> 150),
     witch         |-> (3 :> 40 @@ 4 :> 100 @@ 5 :> 250),
     werewolf      |-> (3 :> 50 @@ 4 :> 150 @@ 5 :> 400),
     haunted_house |-> (3 :> 80 @@ 4 :> 250 @@ 5 :> 800)]

\* row index per reel; payline_index p is PAYLINES[p + 1], reel c is line[c + 1]
PAYLINES ==
    << <<1, 1, 1, 1, 1>>,
       <<0, 0, 0, 0, 0>>,
       <<2, 2, 2, 2, 2>>,
       <<0, 1, 2, 1, 0>>,
       <<2, 1, 0, 1, 2>>,
       <<0, 0, 1, 2, 2>>,
       <<2, 2, 1, 0, 0>>,
       <<0, 1, 1, 1, 2>>,
       <<2, 1, 1, 1, 0>>,
       <<1, 0, 1, 2, 1>> >>

BET_OPTIONS == {1, 2, 3, 5, 10, 20, 50, 100}

\* 10_000 dollars, in cents
START_BALANCE == 1000000

JACKPOT_NAMES == <<"mini", "minor", "jackpot", "grand">>

\* the "base" of each tier, in cents
JackpotBase == [mini |-> 2000, minor |-> 5000, jackpot |-> 50000, grand |-> 250000]

(***************************************************************************)
(* build_reel_strip                                                        *)
(***************************************************************************)
Max(a, b) == IF a >= b THEN a ELSE b

Min(a, b) == IF a <= b THEN a ELSE b

base_counts ==
    [beetle |-> 24, spider |-> 20, bat |-> 18, ghost |-> 16, goblin |-> 10,
     skeleton |-> 8, mummy |-> 6, vampire |-> 4, witch |-> 3, werewolf |-> 2,
     haunted_house |-> 1, freespins |-> 3]

\* mutant of strip_counts: no volatility adjusts the base table
strip_counts_unadjusted(volatility) == base_counts

\* the final weights: the base table with the adjustments of the volatility
strip_counts(volatility) ==
    LET c == base_counts
    IN  IF volatility = "LOW" THEN
            [c EXCEPT !.beetle = @ + 8,
                      !.spider = @ + 6,
                      !.bat = @ + 4,
                      !.witch = Max(1, @ - 1),
                      !.werewolf = Max(1, @ - 1),
                      !.haunted_house = 1,
                      !.freespins = Max(1, @ - 1)]
        ELSE IF volatility = "HIGH" THEN
            [c EXCEPT !.beetle = Max(10, @ - 8),
                      !.spider = Max(8, @ - 6),
                      !.ghost = @ + 2,
                      !.goblin = @ + 2,
                      !.skeleton = @ + 1,
                      !.mummy = @ + 1,
                      !.werewolf = @ + 1,
                      !.haunted_house = @ + 1]
        ELSE c

\* the strip of the first k symbols of the table, each repeated by its count
RECURSIVE strip_upto(_, _)
strip_upto(counts, k) ==
    IF k = 0 THEN << >>
    ELSE strip_upto(counts, k - 1) \o [i \in 1..counts[SYMBOLS[k]] |-> SYMBOLS[k]]

\* mutant of build_reel_strip: the symbols are laid out in reverse table order
build_reel_strip_reversed(volatility) ==
    LET strip == strip_upto(strip_counts(volatility), Len(SYMBOLS))
    IN  [i \in 1..Len(strip) |-> strip[Len(strip) + 1 - i]]

\* the strip: every symbol of the table repeated by its final count, in table order
build_reel_strip(volatility) == strip_upto(strip_counts(volatility), Len(SYMBOLS))

\* strip[i] for a 0-based index i
At(strip, i) == strip[i + 1]

(***************************************************************************)
(* Jackpot probabilities                                                   *)
(*                                                                         *)
(* _roll_jackpots compares random() with the float                         *)
(*     p = min(_jackpot_base_probs[name] * scale, 0.25),                   *)
(*     scale = max(0.1, min(5.0, bet / 10.0)).                             *)
(* For an integer bet, scale is k / 10 with k = max(1, min(50, bet)).      *)
(* random() is v * 2^-53 for the 53-bit numerator v, so random() < p is    *)
(* v < ceil(p * 2^53).  jackpot_p[name][k] is that integer, computed in    *)
(* IEEE double arithmetic as the code computes p, given by its bits.       *)
(***************************************************************************)
\* mutant of jackpot_scale: the scale is held at 1.0 from a bet of 10 up
jackpot_scale_to_ten(bet) == Max(1, Min(10, bet))

\* scale in tenths: max(0.1, min(5.0, bet / 10.0)) for an integer bet
jackpot_scale(bet) == Max(1, Min(50, bet))

jackpot_p ==
    [mini |->
       (1 :> {0, 2, 6, 7, 8, 12, 13, 15, 17, 18, 19, 21, 25, 26, 27, 29, 30, 32, 33, 37, 39, 40}
        @@ 2 :> {0, 3, 7, 8, 9, 13, 14, 16, 18, 19, 20, 22, 26, 27, 28, 30, 31, 33, 34, 38, 40, 41}
        @@ 3 :> {0, 2, 3, 6, 8, 10, 12, 18, 19, 23, 25, 27, 30, 33, 35, 37, 38, 39, 42}
        @@ 5 :> {0, 2, 4, 6, 7, 11, 12, 13, 14, 16, 19, 21, 22, 23, 25, 26, 29, 32, 36, 37, 43}
        @@ 7 :> {1, 2, 3, 4, 6, 10, 11, 12, 14, 15, 17, 18, 22, 24, 25, 35, 36, 37, 38, 40, 41, 43}
        @@ 10 :> {1, 3, 5, 7, 8, 12, 13, 14, 15, 17, 20, 22, 23, 24, 26, 27, 30, 33, 37, 38, 44}
        @@ 20 :> {2, 4, 6, 8, 9, 13, 14, 15, 16, 18, 21, 23, 24, 25, 27, 28, 31, 34, 38, 39, 45}
        @@ 50 :> {1, 4, 6, 11, 12, 13, 15, 17, 18, 19, 20, 24, 26, 31, 32, 33, 35, 37, 38, 39, 40, 44, 46}),
     minor |->
       (1 :> {1, 4, 5, 6, 10, 11, 13, 15, 16, 17, 19, 23, 24, 25, 27, 28, 30, 31, 35, 37, 38}
        @@ 2 :> {0, 1, 5, 6, 7, 11, 12, 14, 16, 17, 18, 20, 24, 25, 26, 28, 29, 31, 32, 36, 38, 39}
        @@ 3 :> {2, 4, 6, 8, 10, 16, 17, 21, 23, 25, 28, 31, 33, 35, 36, 37, 40}
        @@ 5 :> {1, 2, 4, 5, 9, 10, 11, 12, 14, 17, 19, 20, 21, 23, 24, 27, 30, 34, 35, 41}
        @@ 7 :> {3, 4, 8, 9, 10, 12, 13, 15, 16, 20, 22, 23, 33, 34, 35, 36, 38, 39, 41}
        @@ 10 :> {0, 1, 3, 5, 6, 10, 11, 12, 13, 15, 18, 20, 21, 22, 24, 25, 28, 31, 35, 36, 42}
        @@ 20 :> {0, 2, 4, 6, 7, 11, 12, 13, 14, 16, 19, 21, 22, 23, 25, 26, 29, 32, 36, 37, 43}
        @@ 50 :> {0, 2, 4, 9, 10, 11, 13, 15, 16, 17, 18, 22, 24, 29, 30, 31, 33, 35, 36, 37, 38, 42, 44}),
     jackpot |->
       (1 :> {0, 1, 3, 4, 6, 12, 14, 15, 16, 17, 19, 20, 21, 22, 24, 25, 29, 30, 35}
        @@ 2 :> {1, 2, 4, 5, 7, 13, 15, 16, 17, 18, 20, 21, 22, 23, 25, 26, 30, 31, 36}
        @@ 3 :> {0, 4, 8, 12, 13, 14, 16, 17, 20, 21, 22, 25, 27, 29, 32, 35, 36}
        @@ 5 :> {0, 1, 2, 6, 7, 8, 12, 16, 17, 19, 21, 22, 24, 28, 29, 30, 31, 32, 35, 37}
        @@ 7 :> {0, 2, 3, 4, 5, 6, 9, 12, 13, 15, 17, 21, 22, 27, 28, 29, 31, 33, 35, 36, 37}
        @@ 10 :> {1, 2, 3, 7, 8, 9, 13, 17, 18, 20, 22, 23, 25, 29, 30, 31, 32, 33, 36, 38}
        @@ 20 :> {2, 3, 4, 8, 9, 10, 14, 18, 19, 21, 23, 24, 26, 30, 31, 32, 33, 34, 37, 39}
        @@ 50 :> {0, 2, 6, 7, 8, 12, 13, 15, 17, 18, 19, 21, 25, 26, 27, 29, 30, 32, 33, 37, 39, 40}),
     grand |->
       (1 :> {0, 1, 3, 5, 6, 9, 11, 14, 15, 16, 17, 18, 19, 20, 22, 24, 25, 27, 29, 30}
        @@ 2 :> {1, 2, 4, 6, 7, 10, 12, 15, 16, 17, 18, 19, 20, 21, 23, 25, 26, 28, 30, 31}
        @@ 3 :> {0, 6, 8, 9, 10, 11, 12, 14, 16, 17, 18, 19, 20, 25, 30, 32}
        @@ 5 :> {0, 1, 2, 4, 10, 12, 13, 14, 15, 17, 18, 19, 20, 22, 23, 27, 28, 33}
        @@ 7 :> {0, 2, 3, 5, 6, 7, 11, 15, 17, 18, 19, 20, 23, 24, 25, 26, 27, 29, 30, 31, 33}
        @@ 10 :> {1, 2, 3, 5, 11, 13, 14, 15, 16, 18, 19, 20, 21, 23, 24, 28, 29, 34}
        @@ 20 :> {0, 1, 3, 4, 6, 12, 14, 15, 16, 17, 19, 20, 21, 22, 24, 25, 29, 30, 35}
        @@ 50 :> {2, 5, 6, 7, 11, 15, 16, 18, 20, 21, 23, 27, 28, 29, 30, 31, 34, 36})]

jackpot_won(name, bet, v) == Less(v, jackpot_p[name][jackpot_scale(bet)])

(***************************************************************************)
(* HauntedHouseSlot: the steps of one spin                                 *)
(***************************************************************************)
\* mutant of draw_stops: the reels are drawn from reel 4 down to reel 0
RECURSIVE draw_stops_right_to_left(_, _, _, _)
draw_stops_right_to_left(rng, strips, reel_idx, stops) ==
    IF reel_idx = REELS THEN [stop_indices |-> stops, rng |-> rng]
    ELSE CHOOSE r \in {draw_stops_right_to_left(d.s, strips, reel_idx + 1,
                                                << d.value >> \o stops) :
                            d \in {randint(rng, Len(strips[REELS - reel_idx]))}} : TRUE

\* the loop of _generate_grid from reel reel_idx on: one bounded draw per reel
RECURSIVE draw_stops(_, _, _, _)
draw_stops(rng, strips, reel_idx, stops) ==
    IF reel_idx = REELS THEN [stop_indices |-> stops, rng |-> rng]
    ELSE CHOOSE r \in {draw_stops(d.s, strips, reel_idx + 1, Append(stops, d.value)) :
                            d \in {randint(rng, Len(strips[reel_idx + 1]))}} : TRUE

\* mutant of window: the window stops at the ends of the strip and does not wrap
window_clamped(strip, stop) ==
    LET n == Len(strip)
    IN  [r \in 0..(ROWS - 1) |->
            IF r = 0 THEN At(strip, Max(stop - 1, 0))
            ELSE IF r = 1 THEN At(strip, stop)
            ELSE At(strip, Min(stop + 1, n - 1))]

\* the three cells reel reel_idx shows for a stop: rows 0 (top), 1, 2
window(strip, stop) ==
    LET n == Len(strip)
    IN  [r \in 0..(ROWS - 1) |->
            IF r = 0 THEN At(strip, (stop - 1) % n)
            ELSE IF r = 1 THEN At(strip, stop)
            ELSE At(strip, (stop + 1) % n)]

\* _generate_grid: grid[row][reel], the stop indices, and the generator state
generate_grid(rng, strips) ==
    CHOOSE g \in
        {[grid |-> [r \in 0..(ROWS - 1) |-> [c \in 0..(REELS - 1) |->
                       window(strips[c + 1], d.stop_indices[c + 1])[r]]],
          stop_indices |-> d.stop_indices,
          rng |-> d.rng] : d \in {draw_stops(rng, strips, 0, << >>)}} : TRUE

\* mutant of run_length: a scatter continues the run of any symbol
run_length_through_scatter(symbols) ==
    1 + Cardinality({i \in 1..(REELS - 1) :
                        \A j \in 1..i : symbols[j] \in {symbols[0], SCATTER_SYMBOL}})

\* the run of reels, from reel 0, that show the symbol of reel 0
run_length(symbols) ==
    1 + Cardinality({i \in 1..(REELS - 1) : \A j \in 1..i : symbols[j] = symbols[0]})

\* mutant of line_pays: a line win of zero or less is reported too
line_pays_any_amount(first, run_len, line_win) ==
    /\ first # SCATTER_SYMBOL
    /\ run_len >= 3
    /\ first \in DOMAIN PAYTABLE

\* the conditions under which _evaluate_lines appends an entry for a payline
line_pays(first, run_len, line_win) ==
    /\ first # SCATTER_SYMBOL
    /\ run_len >= 3
    /\ first \in DOMAIN PAYTABLE
    /\ line_win > 0

\* one payline of _evaluate_lines: whether it pays, and the entry it appends
evaluate_line(grid, payline_index, bet, using_free_spin, rtp_multiplier) ==
    LET line == PAYLINES[payline_index + 1]
        symbols == [c \in 0..(REELS - 1) |-> grid[line[c + 1]][c]]
        coords == [c \in 1..REELS |-> <<line[c], c - 1>>]
        first == symbols[0]
        run_len == run_length(symbols)
        fs_multiplier == IF using_free_spin THEN 2 ELSE 1
        base_mult == IF first \in DOMAIN PAYTABLE /\ run_len \in DOMAIN PAYTABLE[first]
                     THEN PAYTABLE[first][run_len] ELSE 0
        line_win == bet * base_mult * rtp_multiplier * fs_multiplier
    IN  [pays |-> line_pays(first, run_len, line_win),
         entry |-> [type |-> "adjacent_path",
                    character |-> first,
                    count |-> run_len,
                    path |-> SubSeq(coords, 1, run_len),
                    payline_index |-> payline_index,
                    win |-> line_win]]

RECURSIVE sum_wins(_, _)
sum_wins(entries, k) ==
    IF k = 0 THEN 0 ELSE sum_wins(entries, k - 1) + entries[k].win

\* mutant of evaluate_lines: the total is the highest line win only
evaluate_lines_highest(grid, bet, using_free_spin, rtp_multiplier) ==
    CHOOSE r \in
        {[win_details |-> [k \in 1..Len(paying) |-> paying[k].entry],
          total |-> IF paying = << >> THEN 0
                    ELSE CHOOSE w \in {paying[k].entry.win : k \in 1..Len(paying)} :
                             \A k \in 1..Len(paying) : paying[k].entry.win <= w] :
         paying \in {SelectSeq([i \in 1..Len(PAYLINES) |->
                                   evaluate_line(grid, i - 1, bet, using_free_spin,
                                                 rtp_multiplier)],
                               LAMBDA e : e.pays)}} : TRUE

\* _evaluate_lines: the win entries in payline order and their total
evaluate_lines(grid, bet, using_free_spin, rtp_multiplier) ==
    CHOOSE r \in
        {[win_details |-> [k \in 1..Len(paying) |-> paying[k].entry],
          total |-> sum_wins([k \in 1..Len(paying) |-> paying[k].entry], Len(paying))] :
         paying \in {SelectSeq([i \in 1..Len(PAYLINES) |->
                                   evaluate_line(grid, i - 1, bet, using_free_spin,
                                                 rtp_multiplier)],
                               LAMBDA e : e.pays)}} : TRUE

\* the free spins _evaluate_scatters adds for a scatter count
scatter_award(count) ==
    IF count >= 3
    THEN (IF count = 3 THEN 10 ELSE IF count = 4 THEN 12 ELSE 15)
    ELSE 0

\* mutant of scatter_cells: the bottom row is not scanned
scatter_cells_above_bottom(grid) ==
    SelectSeq([k \in 1..((ROWS - 1) * REELS) |-> <<(k - 1) \div REELS, (k - 1) % REELS>>],
              LAMBDA rc : grid[rc[1]][rc[2]] = SCATTER_SYMBOL)

\* the cells of the grid that show the scatter, in row-major order
scatter_cells(grid) ==
    SelectSeq([k \in 1..(ROWS * REELS) |-> <<(k - 1) \div REELS, (k - 1) % REELS>>],
              LAMBDA rc : grid[rc[1]][rc[2]] = SCATTER_SYMBOL)

\* mutant of evaluate_scatters: an award replaces the free spins pending
evaluate_scatters_replacing(grid, pending) ==
    CHOOSE r \in
        {[scatter_positions |-> scatter_positions,
          award |-> scatter_award(Len(scatter_positions)),
          free_spins |-> IF Len(scatter_positions) >= 3
                         THEN scatter_award(Len(scatter_positions)) ELSE pending,
          free_spins_awarded |-> Len(scatter_positions) >= 3] :
         scatter_positions \in {scatter_cells(grid)}} : TRUE

\* _evaluate_scatters: the scatter cells, whether free spins are awarded, and
\* self.free_spins with the award added
evaluate_scatters(grid, pending) ==
    CHOOSE r \in
        {[scatter_positions |-> scatter_positions,
          award |-> scatter_award(Len(scatter_positions)),
          free_spins |-> pending + scatter_award(Len(scatter_positions)),
          free_spins_awarded |-> Len(scatter_positions) >= 3] :
         scatter_positions \in {scatter_cells(grid)}} : TRUE

\* mutant of roll_tier: a tier that is won keeps its value
roll_tier_keeping(name, current, rng, bet) ==
    CHOOSE r \in
        {[won |-> jackpot_won(name, bet, d.value),
          roll |-> d.value,
          wins |-> IF jackpot_won(name, bet, d.value)
                   THEN << [name |-> name, amount |-> current] >> ELSE << >>,
          current |-> current,
          rng |-> d.s] : d \in {random(rng)}} : TRUE

\* one tier of _roll_jackpots: a float draw, then the win and the reset
roll_tier(name, current, rng, bet) ==
    CHOOSE r \in
        {[won |-> jackpot_won(name, bet, d.value),
          roll |-> d.value,
          wins |-> IF jackpot_won(name, bet, d.value)
                   THEN << [name |-> name, amount |-> current] >> ELSE << >>,
          current |-> IF jackpot_won(name, bet, d.value) THEN JackpotBase[name] ELSE current,
          rng |-> d.s] : d \in {random(rng)}} : TRUE

\* the loop of _roll_jackpots from tier number i on
RECURSIVE roll_from(_, _, _, _, _, _)
roll_from(i, jp, rng, bet, wins, rolls) ==
    IF i > Len(JACKPOT_NAMES)
    THEN [wins |-> wins, rolls |-> rolls, jackpots |-> jp, rng |-> rng]
    ELSE CHOOSE r \in
             {roll_from(i + 1, [jp EXCEPT ![JACKPOT_NAMES[i]] = t.current], t.rng, bet,
                        wins \o t.wins, Append(rolls, t.roll)) :
              t \in {roll_tier(JACKPOT_NAMES[i], jp[JACKPOT_NAMES[i]], rng, bet)}} : TRUE

\* mutant of roll_jackpots: the tiers after the first one won are not won
roll_jackpots_exclusive(jp, rng, bet) ==
    CHOOSE x \in
        {IF r.wins = << >> THEN r
         ELSE [r EXCEPT !.wins = << Head(r.wins) >>,
                        !.jackpots = [jp EXCEPT ![Head(r.wins).name] =
                                                    JackpotBase[Head(r.wins).name]]] :
         r \in {roll_from(1, jp, rng, bet, << >>, << >>)}} : TRUE

\* _roll_jackpots: the tiers in the order mini, minor, jackpot, grand
roll_jackpots(jp, rng, bet) == roll_from(1, jp, rng, bet, << >>, << >>)

RECURSIVE sum_amounts(_, _)
sum_amounts(wins, k) ==
    IF k = 0 THEN 0 ELSE sum_amounts(wins, k - 1) + wins[k].amount

\* mutant of debit: a free spin is debited like a BASE spin
debit_always(using_free_spin, bet) == 100 * bet

\* the debit of a BASE spin, in cents; a free spin is not debited
debit(using_free_spin, bet) == IF using_free_spin THEN 0 ELSE 100 * bet

\* mutant of accrue: a free spin feeds the pools like a BASE spin
accrue_always(jp, using_free_spin, bet) ==
    [name \in DOMAIN jp |-> jp[name] + bet]

\* the accrual of a BASE spin: inc = round(0.01 * bet, 2) is bet cents
accrue(jp, using_free_spin, bet) ==
    IF using_free_spin THEN jp
    ELSE LET inc == bet
         IN  [name \in DOMAIN jp |-> jp[name] + inc]

\* mutant of settle: the session total is finalized before the last win is added
settle_before_win(using_free_spin, pending, session_total, total_win) ==
    IF using_free_spin
    THEN LET left == pending - 1
             total == session_total + total_win
         IN  [free_spins |-> left,
              free_spins_just_ended |-> left = 0,
              free_spins_session_final |-> IF left = 0 THEN << session_total >> ELSE << >>,
              free_spins_session_total |-> IF left = 0 THEN 0 ELSE total]
    ELSE [free_spins |-> pending,
          free_spins_just_ended |-> FALSE,
          free_spins_session_final |-> << >>,
          free_spins_session_total |-> session_total]

\* mutant of settle: the win of the BASE spin that triggers a run opens the total
settle_counting_trigger(using_free_spin, pending, session_total, total_win) ==
    IF using_free_spin
    THEN LET left == pending - 1
             total == session_total + total_win
         IN  [free_spins |-> left,
              free_spins_just_ended |-> left = 0,
              free_spins_session_final |-> IF left = 0 THEN << total >> ELSE << >>,
              free_spins_session_total |-> IF left = 0 THEN 0 ELSE total]
    ELSE [free_spins |-> pending,
          free_spins_just_ended |-> FALSE,
          free_spins_session_final |-> << >>,
          free_spins_session_total |-> IF pending > 0 THEN session_total + total_win
                                       ELSE session_total]

\* mutant of settle: the session total is kept when the run ends
settle_without_reset(using_free_spin, pending, session_total, total_win) ==
    IF using_free_spin
    THEN LET left == pending - 1
             total == session_total + total_win
         IN  [free_spins |-> left,
              free_spins_just_ended |-> left = 0,
              free_spins_session_final |-> IF left = 0 THEN << total >> ELSE << >>,
              free_spins_session_total |-> total]
    ELSE [free_spins |-> pending,
          free_spins_just_ended |-> FALSE,
          free_spins_session_final |-> << >>,
          free_spins_session_total |-> session_total]

\* the end of spin for a free spin: one spin used, the win added to the session
\* total, and the total finalized and reset with the last spin of the run
settle(using_free_spin, pending, session_total, total_win) ==
    IF using_free_spin
    THEN LET left == pending - 1
             total == session_total + total_win
         IN  [free_spins |-> left,
              free_spins_just_ended |-> left = 0,
              free_spins_session_final |-> IF left = 0 THEN << total >> ELSE << >>,
              free_spins_session_total |-> IF left = 0 THEN 0 ELSE total]
    ELSE [free_spins |-> pending,
          free_spins_just_ended |-> FALSE,
          free_spins_session_final |-> << >>,
          free_spins_session_total |-> session_total]

\* the bets spin() rejects in BASE mode
\* mutant of invalid_bet: the balance is not looked at
invalid_bet_whatever_balance(bet, bal) == bet \notin BET_OPTIONS

invalid_bet(bet, bal) == bet \notin BET_OPTIONS \/ bet * 100 > bal

(***************************************************************************)
(* The engine as a state machine                                           *)
(***************************************************************************)
VARIABLES
    volatility,                \* self.volatility
    balance,                   \* self.balance, in cents
    free_spins,                \* self.free_spins
    in_free_spins,             \* self.in_free_spins
    free_spins_session_total,  \* self.free_spins_session_total, in cents
    jackpots,                  \* self.jackpots[name]["current"], in cents
    rng,                       \* self.rng.s
    reel_strips,               \* self.reel_strips
    rtp_multiplier,            \* self.rtp_multiplier, in tenths
    result,                    \* what the last call of spin returned
    last_bet,                  \* the bet passed to the last call of spin
    before,                    \* the engine's fields when the last call was made
    stop_indices,              \* the stop indices of the last accepted spin
    rolls,                     \* the four float draws of the last accepted spin
    spins,                     \* accepted spins so far
    length,                    \* the accepted spins this session plays
    run,                       \* the current or the last free-spin run
    ledger,                    \* the stakes debited and the wins credited so far
    ui                         \* the fields of the SlotMachineUI that hosts the engine

vars == <<volatility, balance, free_spins, in_free_spins, free_spins_session_total,
          jackpots,
          rng, reel_strips, rtp_multiplier, result, last_bet, before, stop_indices,
          rolls, spins, length, run, ledger, ui>>

None == << >>

NoGrid == [r \in 0..(ROWS - 1) |-> [c \in 0..(REELS - 1) |-> ""]]

\* a result before the first call ("none") or of a rejected call ("error")
Blank(kind) ==
    [kind |-> kind, grid |-> NoGrid, bet |-> 0, win |-> 0, balance |-> 0,
     win_details |-> << >>, free_spins |-> 0, in_free_spins |-> FALSE,
     freespins_cells |-> << >>, free_spins_awarded |-> FALSE, jackpot_wins |-> << >>,
     jackpots |-> [name \in DOMAIN JackpotBase |-> 0],
     free_spins_session_total |-> 0, free_spins_session_final |-> None,
     free_spins_just_ended |-> FALSE]

NoRun == [active |-> FALSE, entitlement |-> 0, spins |-> 0, awarded |-> 0, wins |-> 0]

\* the fields of the engine a call of spin can change
Fields ==
    [balance |-> balance, free_spins |-> free_spins, in_free_spins |-> in_free_spins,
     free_spins_session_total |-> free_spins_session_total, jackpots |-> jackpots,
     rng |-> rng]

rtp_of(rtp_mode) ==
    IF rtp_mode = "LOOSE" THEN 11 ELSE IF rtp_mode = "TIGHT" THEN 9 ELSE 10

\* HauntedHouseSlot.__init__, with the state the generator's entropy gives it
Construct(volatility_arg, rtp_mode, seed) ==
    /\ volatility = volatility_arg
    /\ balance = START_BALANCE
    /\ free_spins = 0
    /\ in_free_spins = FALSE
    /\ free_spins_session_total = 0
    /\ jackpots = JackpotBase
    /\ rng = seed
    /\ reel_strips = [c \in 1..REELS |-> build_reel_strip(volatility_arg)]
    /\ rtp_multiplier = rtp_of(rtp_mode)
    /\ result = Blank("none")
    /\ last_bet = 0
    /\ before = [balance |-> START_BALANCE, free_spins |-> 0, in_free_spins |-> FALSE,
                 free_spins_session_total |-> 0, jackpots |-> JackpotBase, rng |-> seed]
    /\ stop_indices = << >>
    /\ rolls = << >>
    /\ spins = 0
    /\ run = NoRun
    /\ ledger = [staked |-> 0, won |-> 0]

\* mutant of SpinRejected: the bet is debited before it is validated
SpinRejectedAfterDebit(bet) ==
    /\ ~(free_spins > 0)
    /\ invalid_bet(bet, balance)
    /\ in_free_spins' = FALSE
    /\ balance' = balance - 100 * bet
    /\ result' = Blank("error")
    /\ last_bet' = bet
    /\ before' = Fields
    /\ UNCHANGED <<free_spins, free_spins_session_total, jackpots, rng,
                   reel_strips, rtp_multiplier, stop_indices, rolls, spins, length,
                   run, ledger, volatility>>

\* spin(bet), the early return: "Invalid bet or insufficient balance."
SpinRejected(bet) ==
    /\ ~(free_spins > 0)
    /\ invalid_bet(bet, balance)
    /\ in_free_spins' = FALSE
    /\ result' = Blank("error")
    /\ last_bet' = bet
    /\ before' = Fields
    /\ UNCHANGED <<balance, free_spins, free_spins_session_total, jackpots, rng,
                   reel_strips, rtp_multiplier, stop_indices, rolls, spins, length,
                   run, ledger, volatility>>

\* spin(bet), run to its end
SpinAccepted(bet) ==
    /\ ~(~(free_spins > 0) /\ invalid_bet(bet, balance))
    /\ \E using_free_spin \in {free_spins > 0} :
       \E g \in {generate_grid(rng, reel_strips)} :
       \E lines \in {evaluate_lines(g.grid, bet, using_free_spin, rtp_multiplier)} :
       \E sc \in {evaluate_scatters(g.grid, free_spins)} :
       \E jp \in {roll_jackpots(accrue(jackpots, using_free_spin, bet), g.rng, bet)} :
       \E total_win \in {lines.total + sum_amounts(jp.wins, Len(jp.wins))} :
       \E end \in {settle(using_free_spin, sc.free_spins, free_spins_session_total,
                          total_win)} :
       LET began == IF run.active THEN run
                    ELSE [NoRun EXCEPT !.entitlement = free_spins]
       IN  /\ in_free_spins' = using_free_spin
           /\ balance' = balance - debit(using_free_spin, bet) + total_win
           /\ jackpots' = jp.jackpots
           /\ rng' = jp.rng
           /\ free_spins' = end.free_spins
           /\ free_spins_session_total' = end.free_spins_session_total
           /\ result' =
                [kind |-> "outcome",
                 grid |-> g.grid,
                 bet |-> bet,
                 win |-> total_win,
                 balance |-> balance - debit(using_free_spin, bet) + total_win,
                 win_details |-> lines.win_details,
                 free_spins |-> end.free_spins,
                 in_free_spins |-> using_free_spin,
                 freespins_cells |-> IF sc.free_spins_awarded
                                     THEN sc.scatter_positions ELSE << >>,
                 free_spins_awarded |-> sc.free_spins_awarded,
                 jackpot_wins |-> jp.wins,
                 jackpots |-> jp.jackpots,
                 free_spins_session_total |-> end.free_spins_session_total,
                 free_spins_session_final |-> end.free_spins_session_final,
                 free_spins_just_ended |-> end.free_spins_just_ended]
           /\ last_bet' = bet
           /\ before' = Fields
           /\ stop_indices' = g.stop_indices
           /\ rolls' = jp.rolls
           /\ spins' = spins + 1
           /\ run' = IF using_free_spin
                     THEN [active |-> end.free_spins > 0,
                           entitlement |-> began.entitlement,
                           spins |-> began.spins + 1,
                           awarded |-> began.awarded + sc.award,
                           wins |-> began.wins + total_win]
                     ELSE run
           /\ ledger' = [staked |-> ledger.staked + debit(using_free_spin, bet),
                         won |-> ledger.won + total_win]
           /\ UNCHANGED <<volatility, reel_strips, rtp_multiplier, length>>

(***************************************************************************)
(* The generator states of the sessions explored                           *)
(***************************************************************************)
\* generator state: the first spin's four jackpot draws split by stake: mini is won at the top
\* scale only, minor and grand at any stake, jackpot from scale 0.7 up
SeedStakes ==
    <<{5, 8, 9, 10, 13, 14, 15, 16, 18, 20, 22, 23, 24, 25, 26, 28, 29, 34, 36, 37,
      39, 40, 41, 44, 48, 50, 51, 53, 58, 59, 60, 61, 63},
      {0, 5, 8, 9, 10, 12, 14, 18, 19, 21, 23, 25, 26, 28, 29, 31, 35, 38, 39, 41,
      44, 45, 48, 49, 54, 55, 56, 57, 58, 63},
      {0, 1, 3, 5, 6, 7, 9, 10, 12, 14, 16, 18, 20, 22, 23, 26, 28, 34, 36, 37, 40,
      41, 43, 45, 46, 47, 48, 49, 51, 52, 56, 58, 59, 60, 63},
      {0, 3, 7, 17, 18, 19, 22, 23, 24, 27, 30, 31, 33, 34, 35, 36, 38, 39, 40, 42,
      43, 46, 47, 49, 53, 54, 55, 61, 62}>>

\* generator state: the second spin's four jackpot draws win at any stake; both spins are BASE
SeedSecondSpin ==
    <<{4, 5, 6, 9, 11, 13, 14, 16, 17, 18, 19, 20, 21, 22, 23, 25, 26, 27, 33, 34,
      40, 57, 58, 59, 61, 62, 63},
      {0, 1, 3, 4, 8, 9, 13, 14, 18, 20, 22, 26, 27, 30, 33, 34, 37, 39, 41, 42, 43,
      45, 46, 47, 49, 50, 52, 54, 55, 63},
      {0, 4, 7, 8, 10, 12, 13, 16, 17, 21, 22, 23, 24, 26, 27, 30, 32, 33, 34, 36,
      40, 44, 48, 49, 51, 52, 53, 56, 58, 60, 62},
      {0, 1, 3, 4, 5, 6, 7, 9, 11, 12, 14, 15, 18, 21, 23, 25, 27, 28, 29, 32, 33,
      35, 36, 37, 39, 40, 41, 42, 43, 45, 47, 48, 50, 51, 52, 53, 56, 57, 58,
      59, 60, 62, 63}>>

\* generator state: three scatters on spin 1; the free spin 2 wins mini and grand at any stake
SeedFreeJackpot ==
    <<{2, 8, 9, 10, 12, 13, 14, 15, 16, 18, 19, 21, 22, 23, 25, 26, 27, 29, 31, 34,
      36, 37, 40, 41, 42, 44, 49, 53, 55, 56, 57, 61, 62, 63},
      {1, 4, 5, 7, 8, 9, 12, 14, 15, 16, 21, 23, 26, 27, 28, 30, 31, 33, 35, 36, 37,
      38, 39, 40, 41, 43, 44, 48, 51, 52, 55, 56, 57, 60, 61, 62, 63},
      {0, 4, 7, 8, 9, 10, 11, 12, 16, 17, 22, 23, 24, 26, 29, 30, 32, 35, 36, 37,
      41, 42, 44, 45, 46, 47, 48, 50, 51, 55, 56, 57, 58, 59, 61, 62},
      {3, 4, 6, 7, 8, 9, 10, 13, 14, 17, 22, 23, 25, 26, 27, 28, 29, 32, 36, 40, 41,
      42, 45, 47, 49, 50, 55, 59, 60, 63}>>

\* generator state: four scatters on spin 1
SeedFourScatters ==
    <<{0, 1, 3, 6, 8, 9, 10, 11, 13, 16, 17, 22, 23, 24, 25, 29, 31, 34, 35, 36, 37,
      40, 42, 43, 44, 47, 48, 49, 50, 52, 53, 55, 59, 60, 61, 62, 63},
      {1, 4, 7, 8, 12, 15, 16, 19, 20, 22, 23, 24, 25, 30, 31, 34, 35, 36, 44, 45,
      46, 47, 49, 50, 53, 54, 56, 59, 62},
      {0, 4, 5, 6, 8, 11, 12, 19, 23, 24, 25, 26, 27, 28, 29, 30, 35, 36, 42, 43,
      45, 47, 48, 49, 51, 54, 56, 59, 60},
      {0, 2, 4, 5, 6, 7, 8, 10, 12, 13, 14, 16, 17, 20, 21, 22, 23, 24, 26, 27, 29,
      30, 31, 32, 35, 36, 37, 39, 42, 44, 45, 46, 47, 48, 50, 51, 52, 54, 55,
      56, 57, 59}>>

\* generator state: five scatters on spin 1
SeedFiveScatters ==
    <<{1, 4, 6, 8, 11, 16, 19, 20, 28, 30, 31, 35, 38, 39, 40, 44, 45, 46, 47, 48,
      54, 55, 56, 58, 60, 62, 63},
      {1, 2, 4, 5, 8, 12, 13, 15, 19, 21, 22, 23, 24, 28, 29, 30, 31, 32, 34, 38,
      39, 41, 42, 43, 46, 51, 55, 56, 60},
      {0, 3, 4, 6, 11, 14, 15, 16, 17, 21, 23, 26, 27, 29, 31, 33, 38, 39, 40, 41,
      47, 48, 49, 50, 53, 54, 57, 59, 60, 61, 63},
      {0, 1, 4, 11, 12, 15, 19, 24, 29, 30, 31, 32, 33, 35, 37, 38, 42, 43, 44, 48,
      51, 56, 59, 60, 62, 63}>>

\* generator state: fifteen scatters on spin 1
SeedAllScatters ==
    <<{0, 1, 2, 3, 4, 7, 8, 9, 11, 12, 13, 15, 17, 21, 24, 27, 32, 33, 36, 38, 40,
      41, 42, 43, 44, 46, 47, 48, 49, 51, 53, 57, 62},
      {0, 10, 11, 16, 18, 19, 22, 26, 27, 29, 33, 36, 37, 40, 43, 44, 45, 48, 50,
      51, 52, 53, 55, 57, 60, 62, 63},
      {4, 6, 8, 10, 13, 16, 18, 20, 21, 22, 23, 24, 26, 27, 29, 31, 32, 33, 35, 36,
      38, 39, 40, 43, 49, 51, 54, 55, 56, 57, 60, 61},
      {3, 5, 6, 7, 8, 9, 10, 12, 13, 14, 15, 17, 25, 26, 27, 28, 32, 33, 34, 36, 37,
      38, 41, 42, 43, 47, 49, 50, 52, 55, 57, 58, 63}>>

\* generator state: three scatters on spin 1 and three more on the free spin 5
SeedRetrigger ==
    <<{1, 2, 5, 6, 9, 10, 12, 14, 17, 20, 21, 28, 30, 31, 36, 39, 41, 43, 45, 47,
      48, 53, 55, 56, 57, 58, 59, 61, 63},
      {0, 1, 3, 4, 6, 9, 10, 13, 20, 21, 23, 24, 28, 29, 30, 31, 32, 33, 37, 38, 39,
      40, 41, 42, 43, 46, 47, 50, 51, 53, 54, 57, 58, 61},
      {2, 3, 8, 9, 16, 17, 23, 26, 28, 29, 32, 33, 35, 36, 38, 39, 40, 41, 43, 49,
      51, 52, 53, 54, 55, 56, 58, 59, 60, 61, 62},
      {1, 2, 5, 9, 10, 12, 18, 20, 21, 24, 25, 26, 27, 30, 31, 33, 38, 42, 43, 44,
      45, 47, 51, 52, 53, 58, 62, 63}>>

\* generator state: witch on the first three reels of every row on spin 1
SeedWitch ==
    <<{0, 2, 6, 8, 9, 10, 11, 13, 15, 17, 18, 23, 27, 29, 32, 34, 35, 36, 40, 42,
      43, 44, 45, 46, 47, 48, 49, 51, 53, 54, 55, 57, 58, 59, 60, 61},
      {0, 2, 5, 7, 9, 11, 12, 13, 14, 17, 18, 19, 23, 24, 25, 34, 37, 38, 40, 44,
      46, 49, 50, 52, 54, 55, 57, 59, 61, 62, 63},
      {0, 4, 5, 9, 10, 13, 16, 21, 22, 23, 25, 27, 29, 32, 33, 38, 39, 41, 43, 47,
      49, 51, 52, 53, 54, 57, 58, 60, 61, 63},
      {0, 1, 2, 4, 7, 10, 16, 17, 24, 27, 28, 30, 31, 33, 34, 40, 43, 45, 46, 53,
      54, 61, 62}>>

\* generator state: spin 1 stops reel 2 at 0 and reels 3 and 4 at the last strip index,
\* which shows five scatters beside beetle runs from reel 0
SeedScattersAndLines ==
    <<{1, 2, 4, 5, 8, 10, 11, 12, 15, 16, 17, 18, 19, 21, 23, 24, 25, 28, 29, 31,
      33, 34, 35, 36, 37, 38, 39, 40, 43, 45, 47, 48, 54, 57, 58, 59, 61, 63},
      {0, 1, 2, 3, 5, 7, 9, 11, 13, 14, 17, 19, 20, 22, 23, 28, 29, 31, 33, 34, 35,
      37, 39, 40, 41, 44, 46, 47, 49, 50, 53, 54, 56, 58, 61, 62},
      {1, 2, 3, 6, 7, 8, 11, 14, 15, 18, 24, 25, 27, 30, 34, 36, 37, 38, 42, 43, 45,
      47, 48, 49, 50, 51, 52, 53, 54, 55, 57, 62},
      {0, 1, 2, 5, 7, 9, 10, 15, 17, 18, 20, 21, 24, 25, 26, 27, 28, 29, 34, 37, 38,
      39, 41, 45, 46, 48, 49, 51, 52, 53, 54, 61, 63}>>

\* generator state: a hundred stakes of 100 leave a balance of 65
SeedDrain ==
    <<{0, 1, 2, 4, 5, 7, 8, 9, 11, 13, 16, 17, 23, 28, 32, 35, 39, 40, 42, 44, 45,
      49, 50, 51, 54, 56, 57, 58, 60, 62},
      {3, 4, 5, 7, 11, 15, 16, 17, 18, 21, 22, 23, 24, 25, 26, 29, 30, 31, 33, 34,
      35, 37, 38, 41, 43, 45, 47, 49, 54, 56, 58, 59},
      {1, 2, 4, 8, 11, 12, 15, 16, 18, 19, 20, 22, 24, 26, 28, 29, 30, 32, 33, 34,
      35, 36, 37, 38, 40, 42, 43, 45, 47, 52, 54, 56, 57, 59},
      {1, 2, 6, 9, 12, 13, 15, 18, 23, 24, 26, 28, 30, 31, 32, 33, 34, 35, 36, 38,
      40, 43, 45, 46, 47, 52, 54, 58, 59, 60, 63}>>

(***************************************************************************)
(* The sessions explored                                                   *)
(***************************************************************************)
\* accepted spins of a session
MaxSpins == 22

\* accepted spins of the long session, which stakes its balance away
MaxDrainSpins == 101

\* accepted spins whose bet is chosen freely; the later calls repeat the last bet
MaxVaried == 2

\* the bets passed to spin
BetInputs == {-5, 1, 7, 10, 100}

Machine(volatility_arg, rtp_mode, seed, n) ==
    [volatility |-> volatility_arg, rtp_mode |-> rtp_mode, seed |-> seed, length |-> n]

Sessions ==
    {Machine("MEDIUM", "STANDARD", SeedStakes, MaxSpins),
     Machine("HIGH", "LOOSE", SeedSecondSpin, MaxSpins),
     Machine("MEDIUM", "TIGHT", SeedFreeJackpot, MaxSpins),
     Machine("LOW", "STANDARD", SeedFourScatters, MaxSpins),
     Machine("MEDIUM", "LOOSE", SeedFiveScatters, MaxSpins),
     Machine("HIGH", "STANDARD", SeedAllScatters, MaxSpins),
     Machine("MEDIUM", "STANDARD", SeedRetrigger, MaxSpins),
     Machine("MEDIUM", "TIGHT", SeedWitch, MaxSpins),
     Machine("MEDIUM", "STANDARD", SeedScattersAndLines, MaxSpins),
     Machine("LOW", "TIGHT", SeedDrain, MaxDrainSpins)}

Init ==
    \E m \in Sessions :
        /\ Construct(m.volatility, m.rtp_mode, m.seed)
        /\ length = m.length
        /\ ui = None

\* the calls a session makes: any bet in its first MaxVaried spins, then one stake
Offered(bet) == spins < MaxVaried \/ bet = last_bet

\* calls made of the engine on its own, no host window about (ui stays None)
Refused(bet) == Offered(bet) /\ SpinRejected(bet) /\ UNCHANGED ui

Played(bet) == Offered(bet) /\ spins < length /\ SpinAccepted(bet) /\ UNCHANGED ui

Next == \E bet \in BetInputs : Refused(bet) \/ Played(bet)

Spec == Init /\ [][Next]_vars

(***************************************************************************)
(* The host window, SlotMachineUI, and the engine it owns                  *)
(***************************************************************************)
\* the top rows choice(SYMBOLS) gives the reels on an animation tick
FrameRows ==
    {[c \in 0..(REELS - 1) |-> "freespins"],
     [c \in 0..(REELS - 1) |-> IF c % 2 = 0 THEN "witch" ELSE "beetle"]}

\* the frames a session shows: any of FrameRows while its first MaxVaried spins are
\* animated, then rows of scatters only
Shown(top) == spins <= MaxVaried \/ top = [c \in 0..(REELS - 1) |-> "freespins"]

\* the bets of the combo box the sessions select
ComboBets == {1, 100}

\* accepted spins of the session that ends on a triggering spin
MaxHostSpins == 13

\* one tick of the reels: every column moves a row down under a fresh top row
advance_reels(current_grid, top) ==
    [r \in 0..(ROWS - 1) |-> IF r = 0 THEN top ELSE current_grid[r - 1]]

\* _enter_free_spins_mode: the pulse timer is made if need be and started, the
\* free-spin style is applied
enter_free_spins_mode(u) ==
    [u EXCEPT !.free_spin_pulse_timer = "active", !.free_spin_style = TRUE]

\* _exit_free_spins_mode: the pulse timer, if there is one, is stopped, the base
\* style is applied
exit_free_spins_mode(u) ==
    [u EXCEPT !.free_spin_pulse_timer = IF @ = "none" THEN "none" ELSE "stopped",
              !.free_spin_style = FALSE]

\* _display_result, its part in the free-spins visual mode
display_result(u, res) ==
    LET in_fs == res.in_free_spins \/ res.free_spins > 0
        entered == IF in_fs /\ ~u.was_in_free_spins THEN enter_free_spins_mode(u) ELSE u
        noted == [entered EXCEPT !.was_in_free_spins = in_fs, !.displayed = @ + 1]
    IN  IF res.free_spins_just_ended THEN exit_free_spins_mode(noted) ELSE noted

\* mutant of finish_spin: the last animation frame stays on the reels
finish_spin_on_frame(u) ==
    IF u.target_result = None
    THEN [u EXCEPT !.is_spinning = FALSE, !.spin_btn = TRUE]
    ELSE [display_result([u EXCEPT !.is_spinning = FALSE, !.spin_btn = TRUE],
                         u.target_result)
            EXCEPT !.target_result = None]

\* _finish_spin: the outcome's grid is shown and the outcome displayed
finish_spin(u) ==
    IF u.target_result = None
    THEN [u EXCEPT !.is_spinning = FALSE, !.spin_btn = TRUE]
    ELSE [display_result([u EXCEPT !.current_grid = u.target_result.grid,
                                   !.is_spinning = FALSE, !.spin_btn = TRUE],
                         u.target_result)
            EXCEPT !.target_result = None]

\* mutant of spin_returns_early: a click is never ignored
spin_returns_never(u) == FALSE

\* SlotMachineUI.spin, its first test: "if self.is_spinning: return"
spin_returns_early(u) == u.is_spinning

\* generator state: three scatters on spin 1, a run of ten free spins, and three
\* scatters again on spin 12, the BASE spin that follows the run's last free spin
SeedRunAfterRun ==
    <<{1, 3, 6, 7, 8, 10, 13, 14, 15, 16, 17, 18, 19, 22, 24, 29, 33, 34, 36, 37,
      38, 40, 42, 43, 44, 46, 47, 48, 49, 52, 53, 54, 55, 56, 58, 59, 61, 62,
      63},
      {3, 8, 9, 13, 14, 15, 20, 23, 25, 26, 27, 29, 33, 35, 37, 38, 39, 40, 41, 42,
      47, 48, 49, 50, 51, 52, 53, 57, 59, 61, 63},
      {0, 2, 3, 8, 12, 13, 14, 16, 17, 18, 19, 20, 21, 23, 24, 25, 27, 28, 29, 34,
      35, 36, 40, 41, 44, 45, 47, 52, 53, 54, 55, 56, 58, 60, 61, 63},
      {2, 5, 6, 8, 9, 12, 14, 15, 19, 25, 30, 35, 36, 40, 41, 42, 44, 46, 47, 55,
      57, 58, 59, 60, 63}>>

\* generator state: a hundred stakes of 100 win nothing and leave a balance of 0
SeedHostDrain ==
    <<{0, 1, 3, 4, 5, 6, 7, 8, 12, 15, 16, 18, 21, 24, 28, 30, 32, 34, 35, 38, 42,
      43, 44, 46, 47, 54, 55, 56, 58, 59, 60, 61, 63},
      {1, 3, 11, 12, 14, 17, 18, 19, 21, 22, 26, 27, 28, 29, 30, 35, 36, 37, 38, 40,
      42, 46, 49, 50, 51, 52, 54, 55, 56, 57, 58, 60},
      {0, 1, 4, 6, 8, 9, 14, 16, 17, 18, 19, 20, 21, 22, 23, 24, 27, 28, 31, 34, 35,
      38, 41, 43, 46, 47, 49, 50, 52, 55, 59, 61, 62, 63},
      {3, 5, 7, 8, 9, 10, 14, 15, 16, 18, 25, 26, 28, 29, 33, 39, 40, 43, 44, 45,
      47, 50, 51, 54, 55, 57, 58, 59, 62}>>

\* the sessions of the window, whose engine is HauntedHouseSlot("MEDIUM", "STANDARD")
HostSessions ==
    {Machine("MEDIUM", "STANDARD", SeedRunAfterRun, MaxHostSpins),
     Machine("MEDIUM", "STANDARD", SeedHostDrain, MaxDrainSpins)}

\* the engine's variables, which a step of the window alone leaves as they are
engine == <<volatility, balance, free_spins, in_free_spins, free_spins_session_total,
            jackpots, rng, reel_strips, rtp_multiplier, result, last_bet, before,
            stop_indices, rolls, spins, length, run, ledger>>

\* SlotMachineUI.__init__ on a random grid, SPIN enabled
HostInit ==
    /\ \E m \in HostSessions :
          /\ Construct("MEDIUM", "STANDARD", m.seed)
          /\ length = m.length
    /\ \E top \in FrameRows :
          ui = [is_spinning |-> FALSE, spin_timer |-> "none", spin_tick_count |-> 0,
                spin_total_ticks |-> 0, target_result |-> None,
                current_grid |-> [r \in 0..(ROWS - 1) |-> top],
                was_in_free_spins |-> FALSE, free_spin_pulse_timer |-> "none",
                free_spin_style |-> FALSE, spin_btn |-> TRUE, displayed |-> 0,
                event |-> "constructed"]

\* the bets a session selects in the combo box: the long session stakes 100 on
\* every spin, the others choose as Offered has it
Selected(bet) == Offered(bet) /\ (length = MaxDrainSpins => bet = 100)

\* SlotMachineUI.spin while the reels turn: the early return
SpinIgnored ==
    /\ spin_returns_early(ui)
    /\ ui' = [ui EXCEPT !.event = "ignored"]
    /\ UNCHANGED engine

\* SlotMachineUI.spin, the engine refusing the bet: a warning box, and return
SpinRefused(bet) ==
    /\ ~spin_returns_early(ui)
    /\ Selected(bet)
    /\ SpinRejected(bet)
    /\ ui' = [ui EXCEPT !.event = "rejected"]

\* SlotMachineUI.spin, the engine accepting the bet: the animation is started
SpinStarted(bet) ==
    /\ ~spin_returns_early(ui)
    /\ Selected(bet)
    /\ spins < length
    /\ SpinAccepted(bet)
    /\ ui' = [ui EXCEPT !.target_result = result', !.is_spinning = TRUE,
                        !.spin_tick_count = 0, !.spin_total_ticks = 8,
                        !.spin_btn = FALSE, !.spin_timer = "active",
                        !.event = "started"]

\* _advance_reels, the timeout of the spin timer; the last tick stops the timer and
\* runs _finish_spin, in one step: the message box _display_result may open is
\* modal, so no click reaches the window before _finish_spin has returned
AdvanceReels ==
    /\ ui.spin_timer = "active"
    /\ \E top \in {row \in FrameRows : Shown(row)} :
       \E ticked \in {[ui EXCEPT !.current_grid = advance_reels(@, top),
                                 !.spin_tick_count = @ + 1]} :
          ui' = IF ticked.spin_tick_count >= ticked.spin_total_ticks
                THEN [finish_spin([ticked EXCEPT !.spin_timer = "stopped"])
                        EXCEPT !.event = "finished"]
                ELSE [ticked EXCEPT !.event = "tick"]
    /\ UNCHANGED engine

HostNext ==
    \/ SpinIgnored
    \/ \E bet \in ComboBets : SpinRefused(bet) \/ SpinStarted(bet)
    \/ AdvanceReels

HostSpec == HostInit /\ [][HostNext]_vars

\* the spin timer fires for as long as it is active
HostFairSpec == HostSpec /\ WF_vars(AdvanceReels)

(***************************************************************************)
(* The generator called on its own                                         *)
(***************************************************************************)
\* calls of randint in a row
MaxCalls == 3

\* the arguments passed to randint
RandintInputs == {-3, 0, 1, 2, 109, 115, 130}

\* self.rng.randint(n): what it returned or that it raised, and the state it left
RandintCall(n) ==
    /\ (IF result.kind = "randint" THEN result.calls ELSE 0) < MaxCalls
    /\ \E d \in {randint(rng, n)} :
          /\ rng' = d.s
          /\ result' = [kind |-> "randint", n |-> n, raised |-> d.raised,
                        value |-> d.value,
                        calls |-> (IF result.kind = "randint" THEN result.calls ELSE 0) + 1]
    /\ before' = Fields
    /\ UNCHANGED <<volatility, balance, free_spins, in_free_spins,
                   free_spins_session_total, jackpots, reel_strips, rtp_multiplier,
                   last_bet, stop_indices, rolls, spins, length, run, ledger, ui>>

RandintNext == \E n \in RandintInputs : RandintCall(n)

RandintSpec == Init /\ [][RandintNext]_vars

(***************************************************************************)
(* The generator seeded from bytes and drawn from                          *)
(***************************************************************************)
\* the 64-bit word held, little-endian, by the 8 bytes of a seed from byte 8 * i on
seed_word(seed_bytes, i) ==
    {p \in WordBits : (seed_bytes[8 * i + (p \div 8) + 1] \div 2 ^ (p % 8)) % 2 = 1}

\* mutant of seed_state: the all-zero state is left as it is
seed_state_unforced(seed_bytes) ==
    LET padded == IF Len(seed_bytes) < 32
                  THEN [k \in 1..32 |-> seed_bytes[((k - 1) % Len(seed_bytes)) + 1]]
                  ELSE seed_bytes
    IN  [i \in 1..4 |-> seed_word(padded, i - 1)]

\* Xoshiro256StarStar.__init__ for a seed of one byte or more: a short seed is
\* repeated up to 32 bytes, the first 32 bytes give the four words, and the
\* all-zero state is replaced by (1, 0, 0, 0)
seed_state(seed_bytes) ==
    LET padded == IF Len(seed_bytes) < 32
                  THEN [k \in 1..32 |-> seed_bytes[((k - 1) % Len(seed_bytes)) + 1]]
                  ELSE seed_bytes
        s == [i \in 1..4 |-> seed_word(padded, i - 1)]
    IN  IF \A i \in 1..4 : s[i] = {} THEN [s EXCEPT ![1] = {0}] ELSE s

\* calls of next_uint64 and random in a row
MaxDraws == 6

\* the seeds passed to the constructor
SeedInputs ==
    {[k \in 1..32 |-> 0],
     [k \in 1..33 |-> IF k = 33 THEN 7 ELSE 0],
     [k \in 1..32 |-> IF k = 1 THEN 1 ELSE 0],
     [k \in 1..32 |-> IF k = 9 THEN 1 ELSE 0],
     [k \in 1..32 |-> IF k = 32 THEN 128 ELSE 0],
     [k \in 1..32 |-> k - 1],
     [k \in 1..32 |-> 255],
     [k \in 1..32 |-> (k * k) % 256],
     [k \in 1..40 |-> (37 * k) % 256],
     [k \in 1..64 |-> (251 - 3 * k) % 256],
     <<1, 2, 3, 4>>}

\* an engine as constructed, its generator made by Xoshiro256StarStar(seed_bytes)
GeneratorInit ==
    \E seed_bytes \in SeedInputs :
        /\ rng = seed_state(seed_bytes)
        /\ result = [kind |-> "seeded", seed_bytes |-> seed_bytes, value |-> {}, draws |-> 0]
        /\ before = [balance |-> START_BALANCE, free_spins |-> 0, in_free_spins |-> FALSE,
                     free_spins_session_total |-> 0, jackpots |-> JackpotBase,
                     rng |-> seed_state(seed_bytes)]
        /\ volatility = "MEDIUM"
        /\ balance = START_BALANCE
        /\ free_spins = 0
        /\ in_free_spins = FALSE
        /\ free_spins_session_total = 0
        /\ jackpots = JackpotBase
        /\ reel_strips = [c \in 1..REELS |-> build_reel_strip("MEDIUM")]
        /\ rtp_multiplier = rtp_of("STANDARD")
        /\ last_bet = 0
        /\ stop_indices = << >>
        /\ rolls = << >>
        /\ spins = 0
        /\ length = 0
        /\ run = NoRun
        /\ ledger = [staked |-> 0, won |-> 0]
        /\ ui = None

\* self.rng.next_uint64(): the word returned and the state left
NextUint64Call ==
    /\ result.draws < MaxDraws
    /\ \E d \in {next_uint64(rng)} :
          /\ rng' = d.s
          /\ result' = [kind |-> "next_uint64", seed_bytes |-> result.seed_bytes,
                        value |-> d.value, draws |-> result.draws + 1]
    /\ before' = Fields
    /\ UNCHANGED <<volatility, balance, free_spins, in_free_spins,
                   free_spins_session_total, jackpots, reel_strips, rtp_multiplier,
                   last_bet, stop_indices, rolls, spins, length, run, ledger, ui>>

\* self.rng.random(): the numerator of the float returned and the state left
RandomCall ==
    /\ result.draws < MaxDraws
    /\ \E d \in {random(rng)} :
          /\ rng' = d.s
          /\ result' = [kind |-> "random", seed_bytes |-> result.seed_bytes,
                        value |-> d.value, draws |-> result.draws + 1]
    /\ before' = Fields
    /\ UNCHANGED <<volatility, balance, free_spins, in_free_spins,
                   free_spins_session_total, jackpots, reel_strips, rtp_multiplier,
                   last_bet, stop_indices, rolls, spins, length, run, ledger, ui>>

GeneratorNext == NextUint64Call \/ RandomCall

GeneratorSpec == GeneratorInit /\ [][GeneratorNext]_vars

(***************************************************************************)
(* The claims                                                              *)
(***************************************************************************)
\* a call of spin has returned an outcome: the last call was accepted
Accepted == result.kind = "outcome"

\* the last call was made with no free spin pending
CalledInBase == before.free_spins = 0

\* C1: a call of spin made with no free spin pending and a bet that is no configured
\* denomination or exceeds the balance returns the error outcome and leaves the
\* balance, the four jackpot values, free_spins, free_spins_session_total and the
\* generator state as they were
RejectedSpinChangesNothing ==
    (/\ result.kind # "none"
     /\ CalledInBase
     /\ last_bet \notin {1, 2, 3, 5, 10, 20, 50, 100} \/ last_bet * 100 > before.balance)
    => /\ result.kind = "error"
       /\ balance = before.balance
       /\ \A name \in {"mini", "minor", "jackpot", "grand"} :
              jackpots[name] = before.jackpots[name]
       /\ free_spins = before.free_spins
       /\ free_spins_session_total = before.free_spins_session_total
       /\ rng = before.rng

\* C1 happens: a bet of 100 is refused on a balance below 100
RejectedForBalance ==
    /\ result.kind = "error"
    /\ last_bet = 100
    /\ before.balance < 10000
    /\ balance = before.balance

\* C2: after an accepted spin the balance is the balance before it, minus the bet when
\* and only when no free spin was pending, plus the outcome's win, in whole cents;
\* and so after any number of spins it is the start balance less the stakes plus the wins
BalanceAccounting ==
    /\ Accepted =>
          /\ balance = before.balance - (IF CalledInBase THEN 100 * last_bet ELSE 0)
                          + result.win
          /\ result.balance = balance
    /\ balance = START_BALANCE - ledger.staked + ledger.won

\* C2 happens: a free spin that wins is credited and not debited
FreeSpinCredited ==
    /\ Accepted
    /\ ~CalledInBase
    /\ last_bet = 100
    /\ result.win > 0
    /\ balance = before.balance + result.win

\* the last call was a free-mode spin
FreeModeSpin == Accepted /\ ~CalledInBase

\* the last call was the free-mode spin after which no free spin is pending
RunEnded == FreeModeSpin /\ free_spins = 0

\* C3 as stated: a run entered with free_spins = N is over after exactly N free-mode
\* spins, not sooner and not later, and the total finalized at its end is the sum of
\* the wins of its spins
RunOfEntitlementSpins ==
    FreeModeSpin =>
        /\ (free_spins = 0) <=> (run.spins = run.entitlement)
        /\ RunEnded => result.free_spins_session_final = << run.wins >>

\* C3, amended: a run entered with free_spins = N is over after exactly N plus the
\* free spins its own spins were awarded, and the total finalized at its end is the
\* sum of the wins of its spins
RunOfEntitlementAndAwards ==
    FreeModeSpin =>
        /\ free_spins = run.entitlement + run.awarded - run.spins
        /\ run.entitlement > 0
        /\ RunEnded => result.free_spins_session_final = << run.wins >>

\* C3 happens: a run entered with 10 free spins, awarded 10 more on the way, ends
\* with its 20th spin and finalizes what it won
RetriggeredRunEnded ==
    /\ RunEnded
    /\ run.entitlement = 10
    /\ run.awarded = 10
    /\ run.spins = 20
    /\ run.wins > 0
    /\ result.free_spins_session_final = << run.wins >>

\* the base values of the tiers as claimed, in cents: 20, 50, 500 and 2500
ClaimedBase == [mini |-> 2000, minor |-> 5000, jackpot |-> 50000, grand |-> 250000]

\* the outcome of the last call lists a win of the tier
Won(name) == \E i \in DOMAIN result.jackpot_wins : result.jackpot_wins[i].name = name

\* the amount the outcome of the last call lists for a tier it won
AmountWon(name) ==
    result.jackpot_wins[CHOOSE i \in DOMAIN result.jackpot_wins :
                            result.jackpot_wins[i].name = name].amount

\* C5: every tier's current value is at least its base; across a spin it does not
\* decrease unless the tier is won on that spin, and then it is exactly the base
JackpotFloorAndReset ==
    \A name \in DOMAIN ClaimedBase :
        /\ jackpots[name] >= ClaimedBase[name]
        /\ result.kind = "error" => jackpots[name] = before.jackpots[name]
        /\ Accepted =>
              IF Won(name) THEN jackpots[name] = ClaimedBase[name]
              ELSE jackpots[name] >= before.jackpots[name]

\* C5 happens: a tier grown above its base is won and falls back to the base
GrownTierReset ==
    /\ Accepted
    /\ Won("grand")
    /\ before.jackpots.grand > 250000
    /\ jackpots.grand = 250000

\* the scatter symbols in the 15 cells of the last outcome's grid
ScatterCount ==
    Cardinality({rc \in (0..2) \X (0..4) : result.grid[rc[1]][rc[2]] = "freespins"})

\* the ladder as claimed, with the 15 free spins of 5 scatters for more than 5 too
ClaimedAward(count) ==
    IF count < 3 THEN 0 ELSE IF count = 3 THEN 10 ELSE IF count = 4 THEN 12 ELSE 15

\* C6: the scatters of the 15 cells add 0, 10, 12 or 15 free spins (fewer than 3, 3,
\* 4, 5 or more) to the free spins pending, in BASE mode and in free mode, where
\* the spin itself uses one up
ScatterLadderAdds ==
    Accepted =>
        /\ free_spins = before.free_spins + ClaimedAward(ScatterCount)
                           - (IF CalledInBase THEN 0 ELSE 1)
        /\ result.free_spins_awarded <=> ScatterCount >= 3
        /\ result.free_spins = free_spins

\* C6 happens: 3 scatters on a free spin add 10 to the 7 free spins pending, of
\* which the spin uses one
AwardAddedToPending ==
    /\ FreeModeSpin
    /\ ScatterCount = 3
    /\ before.free_spins = 7
    /\ free_spins = 16

\* C7: no entry of win_details has a count below 3, the scatter symbol as its
\* character, or a win of zero or less
NoDegenerateLineWin ==
    Accepted =>
        \A i \in DOMAIN result.win_details :
            /\ result.win_details[i].count >= 3
            /\ result.win_details[i].character # "freespins"
            /\ result.win_details[i].win > 0

\* the symbols the last outcome's grid shows on a payline, reel by reel
LineSymbols(p) == [c \in 0..4 |-> result.grid[PAYLINES[p + 1][c + 1]][c]]

\* the reels from reel 0 on that show the symbol of reel 0, up to the first mismatch
LineRun(p) ==
    CHOOSE k \in 1..5 :
        /\ \A c \in 0..(k - 1) : LineSymbols(p)[c] = LineSymbols(p)[0]
        /\ k = 5 \/ LineSymbols(p)[k] # LineSymbols(p)[0]

\* a payline qualifies: its first symbol is not the scatter and runs over 3 reels
Qualifies(p) == LineSymbols(p)[0] # "freespins" /\ LineRun(p) >= 3

\* bet x PAYTABLE[s][k] x rtp multiplier x free-spin multiplier, in cents
ClaimedLineWin(p) ==
    last_bet * PAYTABLE[LineSymbols(p)[0]][LineRun(p)] * rtp_multiplier
        * (IF CalledInBase THEN 1 ELSE 2)

\* the entry claimed for a payline
ClaimedEntry(p) ==
    [payline_index |-> p, character |-> LineSymbols(p)[0], count |-> LineRun(p),
     win |-> ClaimedLineWin(p)]

\* what win_details says of its entries, in its order
ReportedEntries ==
    [i \in DOMAIN result.win_details |->
        [payline_index |-> result.win_details[i].payline_index,
         character |-> result.win_details[i].character,
         count |-> result.win_details[i].count,
         win |-> result.win_details[i].win]]

\* the paylines that qualify, in increasing payline index
QualifyingLines == SelectSeq(<<0, 1, 2, 3, 4, 5, 6, 7, 8, 9>>, Qualifies)

\* the entries claimed: one for every payline that qualifies, in that order
ClaimedEntries == [i \in DOMAIN QualifyingLines |-> ClaimedEntry(QualifyingLines[i])]

\* C8 as stated: win_details holds, in increasing payline index, one entry for
\* every payline whose first symbol is not the scatter and runs over 3 reels or
\* more, with the amount bet x PAYTABLE x rtp multiplier x free-spin multiplier
EntryForEveryQualifyingLine ==
    Accepted => ReportedEntries = ClaimedEntries

\* C8 holds of the spins whose bet is above zero, which every BASE spin is
EntryForEveryQualifyingLineOfPositiveBet ==
    (Accepted /\ last_bet > 0) => ReportedEntries = ClaimedEntries

\* the example of C8: witch, witch, witch, bat, ghost on the middle line of a BASE
\* spin at the 0.9 multiplier pays bet x 4.0 x 0.9, and all ten paylines pay
WitchOnMiddleLine ==
    /\ Accepted
    /\ CalledInBase
    /\ LineSymbols(0) = [c \in 0..4 |-> <<"witch", "witch", "witch", "bat", "ghost">>[c + 1]]
    /\ rtp_multiplier = 9
    /\ last_bet = 10
    /\ Len(result.win_details) = 10
    /\ result.win_details[1].payline_index = 0
    /\ result.win_details[1].win = 3600

\* C7 happens: a free spin called with the bet -5 shows a payline that qualifies,
\* whose amount would be below zero, and reports no entry for it
NegativeLineWinSuppressed ==
    /\ FreeModeSpin
    /\ last_bet = -5
    /\ \E p \in 0..9 : Qualifies(p) /\ ClaimedLineWin(p) < 0
    /\ result.win_details = << >>

\* the scale of a bet, in tenths: bet / 10 held between 0.1 and 5.0
ScaleTenths(bet) == IF bet < 1 THEN 1 ELSE IF bet > 50 THEN 50 ELSE bet

\* the draw of tier number i of the last spin is below the tier's probability
DrawBelow(i) == Less(rolls[i], jackpot_p[JACKPOT_NAMES[i]][ScaleTenths(last_bet)])

\* a tier's value when the last spin rolled for it
AtRoll(name) == before.jackpots[name] + (IF CalledInBase THEN last_bet ELSE 0)

\* C9: each tier is won exactly when its own draw is below its probability,
\* whatever the other tiers' draws; a tier won is listed once, in roll order, with
\* the value it had at the roll, and the snapshot shows it at its base
TierWonByItsOwnDraw ==
    Accepted =>
        /\ \A i \in 1..4 :
              /\ Won(JACKPOT_NAMES[i]) <=> DrawBelow(i)
              /\ Won(JACKPOT_NAMES[i]) =>
                    /\ AmountWon(JACKPOT_NAMES[i]) = AtRoll(JACKPOT_NAMES[i])
                    /\ result.jackpots[JACKPOT_NAMES[i]] = ClaimedBase[JACKPOT_NAMES[i]]
        /\ Len(result.jackpot_wins) = Cardinality({i \in 1..4 : DrawBelow(i)})
        /\ \A i, j \in DOMAIN result.jackpot_wins :
              i < j => \E a, b \in 1..4 :
                          /\ a < b
                          /\ result.jackpot_wins[i].name = JACKPOT_NAMES[a]
                          /\ result.jackpot_wins[j].name = JACKPOT_NAMES[b]
        /\ result.jackpots = jackpots

\* C9 happens: a BASE spin at bet 1 wins minor and grand, each at its value with the
\* spin's accrual of 0.01, and wins neither mini nor jackpot
MinorAndGrandWon ==
    /\ Accepted
    /\ CalledInBase
    /\ last_bet = 1
    /\ ~Won("mini") /\ Won("minor") /\ ~Won("jackpot") /\ Won("grand")
    /\ AmountWon("minor") = 5001
    /\ AmountWon("grand") = 250001
    /\ result.jackpots.minor = 5000 /\ result.jackpots.grand = 250000

\* C10: a BASE spin of bet b raises every pool by b cents before the roll, so a pool
\* not won ends b cents up and a pool won is paid with the b cents; a free spin
\* raises no pool, so a pool keeps its value or is paid at it and reset to its base
AccrualOnBaseSpinsOnly ==
    Accepted =>
        \A name \in DOMAIN ClaimedBase :
            IF CalledInBase
            THEN IF Won(name)
                 THEN AmountWon(name) = before.jackpots[name] + last_bet
                 ELSE jackpots[name] = before.jackpots[name] + last_bet
            ELSE IF Won(name)
                 THEN /\ AmountWon(name) = before.jackpots[name]
                      /\ jackpots[name] = ClaimedBase[name]
                 ELSE jackpots[name] = before.jackpots[name]

\* C10 happens: on a free spin the mini pool, grown on the BASE spin before, is paid
\* at that value and reset, and the minor pool keeps its grown value
FreeSpinRaisesNoPool ==
    /\ FreeModeSpin
    /\ Won("mini")
    /\ before.jackpots.mini > 2000
    /\ AmountWon("mini") = before.jackpots.mini
    /\ jackpots.mini = 2000
    /\ ~Won("minor")
    /\ before.jackpots.minor > 5000
    /\ jackpots.minor = before.jackpots.minor

\* C11: an outcome has free_spins_just_ended exactly when it is of a free-mode spin
\* that leaves no free spin pending; exactly then free_spins_session_final is not
\* null, and it is the session total stored before the spin plus the spin's win,
\* and the stored session total is reset to 0
EndOfRunFinalizedOnce ==
    Accepted =>
        /\ result.free_spins_just_ended <=> (~CalledInBase /\ free_spins = 0)
        /\ result.free_spins_session_final # None <=> result.free_spins_just_ended
        /\ result.free_spins_just_ended =>
              /\ result.free_spins_session_final =
                     << before.free_spins_session_total + result.win >>
              /\ free_spins_session_total = 0
              /\ result.free_spins_session_total = 0

\* C11 happens: the last free spin of a run wins, and the total of the spins before
\* it plus that win is finalized while the stored total falls to 0
LastFreeSpinFinalizes ==
    /\ Accepted
    /\ result.free_spins_just_ended
    /\ before.free_spins = 1
    /\ before.free_spins_session_total > 0
    /\ result.win > 0
    /\ result.free_spins_session_final = << before.free_spins_session_total + result.win >>
    /\ free_spins_session_total = 0

\* the sum of a sequence of amounts
RECURSIVE SumSeq(_)
SumSeq(s) == IF s = << >> THEN 0 ELSE Head(s) + SumSeq(Tail(s))

\* the sum of the win amounts of the last outcome's win_details
LineWinsReported == SumSeq([i \in DOMAIN result.win_details |-> result.win_details[i].win])

\* the sum of the amounts of the last outcome's jackpot_wins
JackpotWinsReported ==
    SumSeq([i \in DOMAIN result.jackpot_wins |-> result.jackpot_wins[i].amount])

\* C12: the outcome's win is the sum of the wins of its win_details plus the sum of
\* the amounts of its jackpot_wins, in cents; the free-spin multiplier of 2 is in
\* every line win of a free spin and in no jackpot amount
WinIsLinesPlusJackpots ==
    Accepted =>
        /\ result.win = LineWinsReported + JackpotWinsReported
        /\ \A i \in DOMAIN result.win_details :
              result.win_details[i].win =
                  last_bet * PAYTABLE[result.win_details[i].character]
                                     [result.win_details[i].count]
                      * rtp_multiplier * (IF CalledInBase THEN 1 ELSE 2)
        /\ \A i \in DOMAIN result.jackpot_wins :
              result.jackpot_wins[i].amount = AtRoll(result.jackpot_wins[i].name)

\* C12 happens: a free spin at bet 100 wins on several paylines and wins the mini
\* pool, which is paid at its value and not doubled
FreeSpinLinesAndJackpot ==
    /\ FreeModeSpin
    /\ last_bet = 100
    /\ Len(result.win_details) > 1
    /\ Won("mini")
    /\ AmountWon("mini") = before.jackpots.mini
    /\ LineWinsReported > 0
    /\ JackpotWinsReported > 0
    /\ result.win = LineWinsReported + JackpotWinsReported

\* a payline shows the scatter on one of its first three reels
ScatterInFirstThree(p) == \E c \in 0..2 : LineSymbols(p)[c] = "freespins"

\* the free spins the last spin added, the one a free-mode spin uses up set aside
FreeSpinsAdded == free_spins - before.free_spins + (IF CalledInBase THEN 0 ELSE 1)

StripEntry(r, i) == reel_strips[r + 1][i + 1]

\* C14: each reel's stop index s is in [0, n) for the strip length n, and the reel's
\* column of the grid shows the strip entries before s, at s and after s, the
\* entry before the first being the last and the entry after the last the first
ColumnIsWrappedWindow ==
    Accepted =>
        \A r \in 0..4 :
            LET s == stop_indices[r + 1]
                n == Len(reel_strips[r + 1])
            IN  /\ s \in 0..(n - 1)
                /\ result.grid[0][r] = StripEntry(r, IF s = 0 THEN n - 1 ELSE s - 1)
                /\ result.grid[1][r] = StripEntry(r, s)
                /\ result.grid[2][r] = StripEntry(r, IF s = n - 1 THEN 0 ELSE s + 1)

\* C14 happens: reel 2 stops at 0 and shows the last strip entry, a scatter, on
\* top; reel 4 stops at the last index and shows the first entry, a beetle, below
WindowWrapsAtBothEnds ==
    /\ Accepted
    /\ stop_indices[3] = 0
    /\ result.grid[0][2] = "freespins"
    /\ result.grid[1][2] = "beetle"
    /\ stop_indices[5] = Len(reel_strips[5]) - 1
    /\ result.grid[1][4] = "freespins"
    /\ result.grid[2][4] = "beetle"

\* the next k outputs of the generator from state s, and the state after them
RECURSIVE Stream(_, _)
Stream(s, k) ==
    IF k = 0 THEN [values |-> << >>, s |-> s]
    ELSE CHOOSE r \in
             {CHOOSE x \in {[values |-> << d.value >> \o t.values, s |-> t.s] :
                                t \in {Stream(d.s, k - 1)}} : TRUE :
              d \in {next_uint64(s)}} : TRUE

\* the nine outputs that follow the generator state the last call found
NineDraws == Stream(before.rng, 9)

\* C15: an accepted spin takes nine outputs of the one generator, in BASE and in
\* free mode: the first five, in order, for the stops of reels 0 to 4 (output mod
\* strip length), the next four, in order, for the rolls of mini, minor, jackpot
\* and grand (output >> 11); a rejected spin takes none
NineDrawsInOrder ==
    /\ Accepted =>
          \A nine \in {NineDraws} :
              /\ \A r \in 0..4 :
                    stop_indices[r + 1] = ModN(nine.values[r + 1], Len(reel_strips[r + 1]))
              /\ \A i \in 1..4 : rolls[i] = Shr(nine.values[5 + i], 11)
              /\ rng = nine.s
    /\ result.kind = "error" => rng = before.rng

\* C15 happens: a free-mode spin has taken nine outputs, of which the first and the
\* fifth gave different stops to reels 0 and 4
FreeSpinTookNineDraws ==
    /\ FreeModeSpin
    /\ rng # before.rng
    /\ stop_indices[1] # stop_indices[5]
    /\ \E nine \in {NineDraws} :
          /\ rng = nine.s
          /\ stop_indices[1] = ModN(nine.values[1], Len(reel_strips[1]))
          /\ stop_indices[5] = ModN(nine.values[5], Len(reel_strips[5]))
          /\ rolls[4] = Shr(nine.values[9], 11)

\* C16: the bet of every accepted spin, free-mode spins included, as passed, as
\* used for the line wins and the jackpot scale, and as recorded in the outcome,
\* is one of the configured denominations
AcceptedBetIsDenomination ==
    Accepted =>
        /\ result.bet \in {1, 2, 3, 5, 10, 20, 50, 100}
        /\ last_bet \in {1, 2, 3, 5, 10, 20, 50, 100}

\* C16 holds of the spins accepted with no free spin pending
BaseBetIsDenomination ==
    (Accepted /\ CalledInBase) => result.bet \in {1, 2, 3, 5, 10, 20, 50, 100}

\* the copies of a symbol on the strip of reel r
Copies(r, sym) == Cardinality({i \in DOMAIN reel_strips[r + 1] : reel_strips[r + 1][i] = sym})

\* the place of a symbol in the table: beetle 1, ..., freespins 12
TableOrder(sym) == CHOOSE k \in 1..Len(SYMBOLS) : SYMBOLS[k] = sym

\* the sum of the final weights of the engine's volatility
RECURSIVE WeightUpTo(_)
WeightUpTo(k) == IF k = 0 THEN 0 ELSE WeightUpTo(k - 1) + strip_counts(volatility)[SYMBOLS[k]]

\* C17: in every state, whatever spins were played, each reel's strip holds each of
\* the 12 symbols at least once and as often as its final weight, in table order
\* from entry to entry (so each symbol's copies are contiguous, beetle first,
\* freespins last), its length is the sum of the final weights, 115 with the base
\* table for MEDIUM, and the five reels have the same strip
StripIsTableInOrder ==
    /\ \A r \in 1..4 : reel_strips[r + 1] = reel_strips[1]
    /\ \A strip \in {reel_strips[1]} :
          /\ Len(SYMBOLS) = 12
          /\ \A k \in 1..12 :
                \A copies \in {Copies(0, SYMBOLS[k])} :
                    /\ copies >= 1
                    /\ copies = strip_counts(volatility)[SYMBOLS[k]]
                    /\ volatility = "MEDIUM" => copies = base_counts[SYMBOLS[k]]
          /\ \A i \in 1..(Len(strip) - 1) :
                TableOrder(strip[i]) <= TableOrder(strip[i + 1])
          /\ strip[1] = "beetle" /\ strip[Len(strip)] = "freespins"
          /\ Len(strip) = WeightUpTo(12)
          /\ volatility = "MEDIUM" => Len(strip) = 115

\* C17 happens: after spins on the LOW strip, one of which stopped a reel on index
\* 129, the strip has its 130 entries, with 32 beetles and 2 scatters
LowStripAfterSpins ==
    /\ volatility = "LOW"
    /\ spins > 1
    /\ \E r \in 1..5 : stop_indices[r] = 129
    /\ Len(reel_strips[1]) = 130
    /\ Copies(0, "beetle") = 32
    /\ Copies(4, "freespins") = 2
    /\ reel_strips[5][129] = "freespins"

\* the eight bits of a word from bit k up, as a number
ByteAt(x, k) ==
    (IF k \in x THEN 1 ELSE 0) + (IF k + 1 \in x THEN 2 ELSE 0)
    + (IF k + 2 \in x THEN 4 ELSE 0) + (IF k + 3 \in x THEN 8 ELSE 0)
    + (IF k + 4 \in x THEN 16 ELSE 0) + (IF k + 5 \in x THEN 32 ELSE 0)
    + (IF k + 6 \in x THEN 64 ELSE 0) + (IF k + 7 \in x THEN 128 ELSE 0)

\* the bits of a word from bit k up, as a number, modulo n, a byte at a time
RECURSIVE WordMod(_, _, _)
WordMod(x, n, k) ==
    IF k = 64 THEN 0
    ELSE CHOOSE r \in {(256 * up + ByteAt(x, k)) % n : up \in {WordMod(x, n, k + 8)}} : TRUE

\* C18: randint(n) for n > 0 returns next_uint64() mod n, a value in [0, n), and
\* leaves the generator one output on; for n <= 0 it raises and leaves the
\* generator state as it was
RandintBoundedOrRaises ==
    result.kind = "randint" =>
        \A d \in {next_uint64(before.rng)} :
            IF result.n > 0
            THEN /\ ~result.raised
                 /\ result.value \in 0..(result.n - 1)
                 /\ result.value = WordMod(d.value, result.n, 0)
                 /\ rng = d.s
            ELSE /\ result.raised
                 /\ rng = before.rng

\* C18 happens: randint(0) raises after a call that drew, and the state that call
\* left is still there
RandintRaisedOnZero ==
    /\ result.kind = "randint"
    /\ result.n = 0
    /\ result.raised
    /\ result.calls = 2
    /\ rng = before.rng
    /\ rng \notin {m.seed : m \in Sessions}

\* the coordinates (row, reel) of the cells of the last outcome's grid that show
\* the scatter
ScatterCoordinates == {rc \in (0..2) \X (0..4) : result.grid[rc[1]][rc[2]] = "freespins"}

\* the coordinates the last outcome reports in freespins_cells
CellsReported == {result.freespins_cells[i] : i \in DOMAIN result.freespins_cells}

\* C19 as stated: freespins_cells holds exactly the coordinates of the scatter
\* cells of the grid, each once, whatever their number
CellsAreAllScatters ==
    Accepted =>
        /\ CellsReported = ScatterCoordinates
        /\ Len(result.freespins_cells) = Cardinality(ScatterCoordinates)

\* C19, amended: with 3 scatters or more freespins_cells holds exactly the
\* coordinates of the scatter cells of the grid, each once, on a winning line or
\* not; with fewer than 3 it is empty
CellsAreAllScattersOfAnAward ==
    Accepted =>
        IF Cardinality(ScatterCoordinates) >= 3
        THEN /\ CellsReported = ScatterCoordinates
             /\ Len(result.freespins_cells) = Cardinality(ScatterCoordinates)
        ELSE result.freespins_cells = << >>

\* C19 happens: 5 scatters on reels 2, 3 and 4 beside paying lines that none of
\* them lies on, and all 5 are reported
ScattersOffWinningLinesReported ==
    /\ Accepted
    /\ result.win_details # << >>
    /\ ScatterCoordinates = {<<0, 2>>, <<0, 3>>, <<1, 3>>, <<0, 4>>, <<1, 4>>}
    /\ CellsReported = ScatterCoordinates
    /\ Len(result.freespins_cells) = 5
    /\ \A i \in DOMAIN result.win_details :
          \A k \in DOMAIN result.win_details[i].path :
              result.win_details[i].path[k] \notin ScatterCoordinates

\* C20: between calls free_spins is an integer of 0 or more, the session total is 0
\* or more, and it is 0 when no free spin is pending; a call made with no free spin
\* pending, accepted or not, leaves the session total as it was
SessionTotalOnlyInRuns ==
    /\ free_spins \in Nat
    /\ free_spins_session_total >= 0
    /\ free_spins = 0 => free_spins_session_total = 0
    /\ (result.kind \in {"outcome", "error"} /\ CalledInBase) =>
          free_spins_session_total = before.free_spins_session_total

\* C20 happens: the BASE spin that triggers a run wins on paylines, and the session
\* total stays at 0
TriggeringWinNotInTotal ==
    /\ Accepted
    /\ CalledInBase
    /\ result.free_spins_awarded
    /\ free_spins > 0
    /\ result.win > 0
    /\ free_spins_session_total = 0

\* a + b for two non-negative integers given by their bits, of any width
RECURSIVE Plus(_, _)
Plus(a, b) ==
    IF b = {} THEN a
    ELSE CHOOSE r \in {Plus(x, c) : x \in {Xor(a, b)}, c \in {Shl(a \cap b, 1)}} : TRUE

\* x * m for x given by its bits and 0 < m < 2^30, from bit i of m on
RECURSIVE TimesFrom(_, _, _)
TimesFrom(x, m, i) ==
    IF 2 ^ i > m THEN {}
    ELSE CHOOSE r \in {IF (m \div 2 ^ i) % 2 = 1 THEN Plus(Shl(x, i), rest) ELSE rest :
                           rest \in {TimesFrom(x, m, i + 1)}} : TRUE

\* 1 / q for the base probability q of each tier, as claimed
ClaimedOdds == [mini |-> 500, minor |-> 2000, jackpot |-> 25000, grand |-> 500000]

\* clamp(bet / 10, 0.1, 5.0), in tenths
ClampTenths(bet) == IF bet <= 1 THEN 1 ELSE IF bet >= 50 THEN 50 ELSE bet

\* v * 2^-53 < q * tenths / 10 for the 53-bit numerator v of a float draw:
\* v * 10 * (1 / q) < tenths * 2^53
BelowProbability(v, name, tenths) ==
    Less(TimesFrom(v, 10 * ClaimedOdds[name], 0), Shl(TimesFrom({0}, tenths, 0), 53))

\* C21: a tier is won exactly when its float draw is strictly below
\* q x clamp(bet / 10, 0.1, 5.0), which is below 0.25 for every tier and bet, so
\* that the cap of 0.25 decides nothing; every threshold the roll compares with is
\* below 0.25 too
WonBelowScaledProbability ==
    /\ Accepted =>
          \A i \in 1..4 :
              Won(JACKPOT_NAMES[i]) <=>
                  BelowProbability(rolls[i], JACKPOT_NAMES[i], ClampTenths(last_bet))
    /\ \A name \in DOMAIN ClaimedOdds :
          /\ 4 * 50 <= 10 * ClaimedOdds[name]
          /\ \A k \in DOMAIN jackpot_p[name] : Less(jackpot_p[name][k], {51})

\* C21 happens: at bet 100 the mini pool is won on a draw below the probability at
\* scale 5.0 that is not below the probability at scale 1.0
WonAtTopScaleOnly ==
    /\ Accepted
    /\ last_bet = 100
    /\ Won("mini")
    /\ BelowProbability(rolls[1], "mini", 50)
    /\ ~BelowProbability(rolls[1], "mini", 10)

\* the weight of a symbol on the engine's strips, and its MEDIUM (base) weight
Weight(sym) == Copies(0, sym)

BaseWeight(sym) == base_counts[sym]

\* what C22 says of LOW, and of HIGH but for the scatter
WeightsLowAndHigh ==
    /\ \A k \in 1..12 : Weight(SYMBOLS[k]) >= 1
    /\ volatility = "LOW" =>
          /\ \A sym \in {"beetle", "spider", "bat"} : Weight(sym) > BaseWeight(sym)
          /\ \A sym \in {"witch", "werewolf", "freespins"} : Weight(sym) < BaseWeight(sym)
          /\ \A k \in 4..11 : Weight(SYMBOLS[k]) <= BaseWeight(SYMBOLS[k])
    /\ volatility = "HIGH" =>
          /\ \A sym \in {"beetle", "spider"} : Weight(sym) < BaseWeight(sym)
          /\ \A sym \in {"werewolf", "haunted_house"} : Weight(sym) > BaseWeight(sym)
          /\ \A k \in 3..11 : Weight(SYMBOLS[k]) >= BaseWeight(SYMBOLS[k])

\* C22 as stated: LOW raises the low-tier weights and lowers the high-tier weights
\* and the scatter's; HIGH lowers the low-tier weights and raises the high-tier
\* weights and the scatter's; every weight is 1 or more
HighRaisesScatter ==
    /\ WeightsLowAndHigh
    /\ volatility = "HIGH" => Weight("freespins") > BaseWeight("freespins")

\* C22, amended: as stated, except that HIGH leaves the scatter at its base weight
HighKeepsScatter ==
    /\ WeightsLowAndHigh
    /\ volatility = "HIGH" => Weight("freespins") = BaseWeight("freespins")

\* C22 happens: a HIGH engine spins on strips of 16 beetles (24 in the base table),
\* 3 werewolves (2) and 3 scatters (3)
HighStripInPlay ==
    /\ volatility = "HIGH"
    /\ spins > 0
    /\ Weight("beetle") = 16 /\ BaseWeight("beetle") = 24
    /\ Weight("werewolf") = 3 /\ BaseWeight("werewolf") = 2
    /\ Weight("freespins") = 3 /\ BaseWeight("freespins") = 3

\* the value of byte number k (from 0) of the seed the generator was made from
SeedByte(k) == result.seed_bytes[k + 1]

\* the state words are the seed's four little-endian 64-bit words: bit 8 * j + b
\* of word i is bit b of byte 8 * i + j
StateIsSeedWords ==
    \A i \in 0..3 : \A j \in 0..7 : \A b \in 0..7 :
        (8 * j + b) \in rng[i + 1] <=> (SeedByte(8 * i + j) \div 2 ^ b) % 2 = 1

\* the state is (1, 0, 0, 0)
StateIsOne == rng = <<{0}, {}, {}, {}>>

\* in every state of the generator no word is outside [0, 2^64) and not all are 0
StateInRangeAndNotZero ==
    /\ \A i \in 1..4 : rng[i] \subseteq 0..63
    /\ \E i \in 1..4 : rng[i] # {}

\* C23 as stated: a generator made from a seed of 32 bytes or more has the seed's
\* four words as its state, but (1, 0, 0, 0) when all the seed's bytes are 0; no
\* state is all zero and every word is in [0, 2^64)
SeedWordsUnlessSeedZero ==
    /\ (result.kind = "seeded" /\ Len(result.seed_bytes) >= 32) =>
          IF \A k \in DOMAIN result.seed_bytes : result.seed_bytes[k] = 0
          THEN StateIsOne ELSE StateIsSeedWords
    /\ StateInRangeAndNotZero

\* C23, amended: the state is (1, 0, 0, 0) when the seed's first 32 bytes, which
\* give the four words, are 0
SeedWordsUnlessWordsZero ==
    /\ (result.kind = "seeded" /\ Len(result.seed_bytes) >= 32) =>
          IF \A k \in 1..32 : result.seed_bytes[k] = 0
          THEN StateIsOne ELSE StateIsSeedWords
    /\ StateInRangeAndNotZero

\* C23 happens: the generator made from 32 zero bytes, and so from (1, 0, 0, 0), has
\* drawn 3 times and its state is not zero
ZeroSeedDrawnFrom ==
    /\ result.kind \in {"next_uint64", "random"}
    /\ result.seed_bytes = [k \in 1..32 |-> 0]
    /\ result.draws = 3
    /\ StateInRangeAndNotZero
    /\ ~StateIsOne

\* a word rotated left by k: bit i goes to bit (i + k) mod 64
Rotated(x, k) == {(i + k) % 64 : i \in x}

\* x * m mod 2^64
TimesMod64(x, m) == TimesFrom(x, m, 0) \cap (0..63)

\* a ^ b
Differ(a, b) == (a \cup b) \ (a \cap b)

\* rotl((s1 x 5) mod 2^64, 7) x 9 mod 2^64
Scrambled(s1) == TimesMod64(Rotated(TimesMod64(s1, 5), 7), 9)

\* the state the xoshiro256** update makes of (s0, s1, s2, s3)
Updated(s0, s1, s2, s3) ==
    LET t == {i + 17 : i \in s1} \cap (0..63)
        n2 == Differ(s2, s0)
        n3 == Differ(s3, s1)
        n1 == Differ(s1, n2)
        n0 == Differ(s0, n3)
    IN  <<n0, n1, Differ(n2, t), Rotated(n3, 45)>>

\* C24: next_uint64 returns rotl((s1 x 5) mod 2^64, 7) x 9 mod 2^64 of the state
\* before the call and leaves the xoshiro256** update of that state; random()
\* returns the top 53 bits of one such draw as the numerator of a float over 2^53,
\* which is in [0, 1)
ScrambledOutputAndUpdate ==
    result.kind \in {"next_uint64", "random"} =>
        \A out \in {Scrambled(before.rng[2])} :
            /\ result.kind = "next_uint64" => result.value = out
            /\ result.kind = "random" =>
                  /\ result.value = {i - 11 : i \in out \ (0..10)}
                  /\ result.value \subseteq 0..52
            /\ rng = Updated(before.rng[1], before.rng[2], before.rng[3], before.rng[4])

\* C24 happens: the generator made from the bytes 0, 1, ..., 31 returns, on its
\* second draw, the numerator that random() has in the code
SecondDrawOfCountingSeed ==
    /\ result.kind = "random"
    /\ result.seed_bytes = [k \in 1..32 |-> k - 1]
    /\ result.draws = 2
    /\ result.value =
          {0, 1, 4, 7, 9, 10, 13, 14, 16, 19, 20, 21, 26, 27, 32, 33, 34, 35,
          36, 38, 39, 40, 44, 45, 47, 50}

\* C26: whatever bets spin was called with, in BASE or in free mode, the balance is
\* never below zero, and no accepted spin reports a total win below zero
BalanceAndWinNotNegative ==
    /\ balance >= 0
    /\ Accepted => result.win >= 0

\* C26 happens: an accepted BASE spin has won nothing and left a balance that no
\* longer covers its stake
StakeNoLongerCovered ==
    /\ Accepted
    /\ CalledInBase
    /\ result.win = 0
    /\ balance < 100 * result.bet

\* C27: a rejected call of spin leaves in_free_spins as it was before the call, also
\* right after the last free spin of a run
RejectedKeepsMode ==
    result.kind = "error" => in_free_spins = before.in_free_spins

\* C25: while a spin's reels turn a click on SPIN does not reach the engine: the
\* engine's last return is still the outcome awaiting display, the one accepted
\* outcome not yet displayed, and SPIN is disabled; between spins no outcome awaits
\* display; a rejected spin leaves is_spinning false and SPIN enabled
SpinsSerialized ==
    /\ ui.is_spinning =>
          /\ ui.target_result = result
          /\ Accepted
          /\ spins = ui.displayed + 1
          /\ ~ui.spin_btn
    /\ ~ui.is_spinning =>
          /\ ui.target_result = None
          /\ spins = ui.displayed
    /\ ui.event = "rejected" =>
          /\ result.kind = "error"
          /\ ~ui.is_spinning
          /\ ui.spin_btn

\* C25 happens: SPIN is clicked on the fifth tick of the third spin's animation
ClickedWhileSpinning ==
    /\ ui.event = "ignored"
    /\ ui.is_spinning
    /\ ui.spin_tick_count = 5
    /\ spins = 3
    /\ ui.displayed = 2

\* the free-spins visual mode: the free-spin style applied and the pulse timer running
VisualMode == ui.free_spin_style /\ ui.free_spin_pulse_timer = "active"

\* the visual mode is off: the base style applied and no pulse timer running
VisualModeOff == ~ui.free_spin_style /\ ui.free_spin_pulse_timer # "active"

\* C28: after every displayed result the free-spins visual mode is active when the
\* engine has free spins pending, also when the BASE spin right after the end of a
\* run triggers a new run, and inactive after the result that ends a run
VisualModeFollowsFreeSpins ==
    ui.event = "finished" =>
        /\ free_spins > 0 => VisualMode
        /\ result.free_spins_just_ended => VisualModeOff

\* a spin under way has its timer running and fewer than 8 ticks behind it; the step
\* that finishes a spin is its 8th tick, and leaves the timer stopped, the outcome's
\* grid on the reels, every accepted outcome displayed once, no outcome awaiting
\* display, is_spinning false and SPIN enabled
FinishedOnEighthTick ==
    /\ ui.is_spinning =>
          /\ ui.spin_timer = "active"
          /\ ui.spin_tick_count < 8
          /\ ui.displayed = spins - 1
    /\ ui.event = "finished" =>
          /\ ui.spin_tick_count = 8
          /\ ui.spin_timer = "stopped"
          /\ ui.current_grid = result.grid
          /\ ui.displayed = spins
          /\ ui.target_result = None
          /\ ~ui.is_spinning
          /\ ui.spin_btn

\* C29: every accepted spin started from the window is eventually finished, on its
\* 8th animation tick: the timer is then stopped, the reels show the outcome's grid
\* whatever frames were animated, the outcome has been displayed exactly once,
\* target_result is cleared, is_spinning is false and SPIN is enabled again
EverySpinFinished ==
    /\ []FinishedOnEighthTick
    /\ ui.is_spinning ~> (ui.event = "finished" /\ ~ui.is_spinning)

\* C29 happens: the second spin is finished on reels that show its outcome's grid,
\* in which no row is one of the animated frames
FinishedOnOutcomeGrid ==
    /\ ui.event = "finished"
    /\ spins = 2
    /\ ui.displayed = 2
    /\ ui.current_grid = result.grid
    /\ \A r \in 0..(ROWS - 1) : result.grid[r] \notin FrameRows

====
